---- MODULE Spec2Model ----
(***************************************************************************)
(* A model of the orchestration loop of tars-swarm: Swarm.run (batched),   *)
(* Swarm.runWithStream (streaming), Swarm.handleToolCalls, the Agent        *)
(* guardrails and the Tracer.                                               *)
(*                                                                          *)
(* Texts are modelled as strings.  The source's Chinese message templates   *)
(* are written in ASCII, keeping their structure:                           *)
(*     `函数 ${name} 未找到`            ->  "fn " name " not found"         *)
(*     `函数 ${name} 执行错误: ${msg}`  ->  "fn " name " execution error: " *)
(*     `输入验证失败: ...`              ->  "input validation failed: ..."  *)
(***************************************************************************)
EXTENDS Integers, Sequences, FiniteSets, TLC

VARIABLES
    pc,                 \* position of the run: idle, loop, model, s_*, done, thrown
    stream,             \* run(..., stream, ...)
    max_turns,          \* run(..., max_turns, ...)
    execute_tools,      \* run(..., execute_tools, ...)
    agent,              \* the `agent` parameter of the run
    messages,           \* the caller's `messages` array
    context_variables,  \* the caller's `context_variables` object
    currentAgent,       \* let currentAgent
    currentMessages,    \* let currentMessages
    currentContextVars, \* let currentContextVars
    turns,              \* let turns
    events,             \* this.tracer.events
    request,            \* createParams of the last backend call
    backendCalls,       \* number of calls made to the model provider
    dispatches,         \* the calls of handleToolCalls so far: agent, batch, callables invoked
    nextId,             \* number of tool calls the provider has requested so far
    chunks,             \* chunks the open provider stream has still to deliver
    collected,          \* collectedResponseMessage
    toolCallResult,     \* const toolCallResult (streaming, while it is yielded)
    yieldIndex,         \* number of toolCallResult.messages yielded so far
    steps,              \* the steps the streaming generator has yielded
    enabled,            \* this.tracer.enabled
    error,              \* the error a run has thrown to its caller
    responses,          \* what the provider answered the run's backend calls with, in order
    eventsId,           \* which array object this.tracer.events refers to
    earlier,            \* the trace arrays earlier runs on this instance returned
    other,              \* a second run on the same Swarm instance
    probe               \* a call of validateInput / validateOutput by itself

vars == <<pc, stream, max_turns, execute_tools, agent, messages, context_variables,
          currentAgent, currentMessages, currentContextVars, turns, events,
          request, backendCalls, dispatches, nextId, chunks, collected,
          toolCallResult, yieldIndex, steps, enabled, error,
          responses, eventsId, earlier, other, probe>>

\* what the first run does not touch: the other users of the instance
aux == <<earlier, other, probe>>

-----------------------------------------------------------------------------
(* Bounds of the model *)

\* largest max_turns a caller passes
MaxTurns == 2
\* largest number of tool calls the provider requests in one run
MaxToolCalls == 2

-----------------------------------------------------------------------------
(* Values *)

\* JavaScript null and undefined, and a value whose String() conversion throws
Null == "<null>"
Undefined == "<undefined>"
Unserializable == "<unserializable>"

\* the empty object {}
EmptyMap == [k \in {} |-> ""]

\* an absent (undefined) object where an object may stand
UndefinedMap == [k \in {Undefined} |-> Undefined]

\* a spread in which the earlier object's keys win: { ...b, ...a }
SpreadKeepFirst(a, b) ==
    [k \in (DOMAIN a) \cup (DOMAIN b) |-> IF k \in DOMAIN a THEN a[k] ELSE b[k]]

\* an assignment in place of the spread: the later object replaces the earlier
SpreadReplace(a, b) == b

\* { ...a, ...b }
Spread(a, b) ==
    [k \in (DOMAIN a) \cup (DOMAIN b) |-> IF k \in DOMAIN b THEN b[k] ELSE a[k]]

\* if (x): a string is truthy unless it is null, undefined or ''
Truthy(s) == s # Null /\ s # Undefined /\ s # ""

RECURSIVE Contains(_, _)
\* s.includes(w)
Contains(s, w) ==
    IF Len(s) < Len(w) THEN FALSE
    ELSE IF SubSeq(s, 1, Len(w)) = w THEN TRUE
    ELSE Contains(SubSeq(s, 2, Len(s)), w)

RECURSIVE Join(_, _)
\* errors.join(sep)
Join(seq, sep) ==
    IF seq = <<>> THEN ""
    ELSE IF Len(seq) = 1 THEN seq[1]
    ELSE seq[1] \o sep \o Join(Tail(seq), sep)

\* number of entries of seq that satisfy P
Count(seq, P(_)) == Cardinality({i \in DOMAIN seq : P(seq[i])})

IsPrefix(s, t) == Len(s) <= Len(t) /\ SubSeq(t, 1, Len(s)) = s

-----------------------------------------------------------------------------
(* Messages and tool calls *)

Message(role, content, name, tool_call_id, tool_calls) ==
    [role |-> role, content |-> content, name |-> name,
     tool_call_id |-> tool_call_id, tool_calls |-> tool_calls]

UserMessage(content) == Message("user", content, Undefined, Undefined, <<>>)

ToolMessage(content, name, toolCallId) ==
    Message("tool", content, name, toolCallId, <<>>)

ToolCall(id, type, name, arguments) ==
    [id |-> id, type |-> type, name |-> name, arguments |-> arguments]

-----------------------------------------------------------------------------
(* Result *)

Result(value, ag, ctx) ==
    [kind |-> "Result", value |-> value, agent |-> ag, context_variables |-> ctx]

\* a bare Agent returned by a callable
AgentValue(ag) ==
    [kind |-> "Agent", value |-> Undefined, agent |-> ag, context_variables |-> UndefinedMap]

\* any other returned value
PlainValue(v) ==
    [kind |-> "other", value |-> v, agent |-> Null, context_variables |-> UndefinedMap]

\* the callable threw Error(msg)
Thrown(msg) ==
    [kind |-> "throw", value |-> msg, agent |-> Null, context_variables |-> UndefinedMap]

-----------------------------------------------------------------------------
(* The agents of the model: "A", "B" and "C" (no functions, no guardrails).   *)
(* An entry of                                                               *)
(* Agent.functions is a callable (typeof func === 'function', with its       *)
(* func.name and the body it runs) or a declarative schema.                  *)

AgentNames == {"A", "B", "C", "D", "H"}

Callable(name, impl) == [callable |-> TRUE, name |-> name, impl |-> impl]
Schema(name) == [callable |-> FALSE, name |-> name, impl |-> Undefined]

\* agent.functions
Functions(ag) ==
    IF ag = "A"
    THEN << Callable("setA1", "A.setA1"), Callable("setA2", "A.setA2"),
            Callable("toB", "A.toB"), Callable("boom", "A.boom"),
            Callable("unser", "A.unser"), Schema("lookup") >>
    ELSE IF ag = "B"
    THEN << Callable("setA1", "B.setA1"), Callable("toA", "B.toA"),
            Callable("toC", "B.toC") >>
    \* H hands off with the functions the Handoff class builds; a function is
    \* registered under its func.name, "handoff" or "conditionalHandoff"
    ELSE IF ag = "H"
    THEN << Callable("setA1", "H.setA1"), Callable("handoff", "H.handoff"),
            Callable("conditionalHandoff", "H.conditionalHandoff") >>
    ELSE << >>

\* agent.model
Model(ag) == IF ag = "B" THEN "fc-llm" ELSE "gpt-4o"

RECURSIVE RenderContext(_, _)
\* the text an instructions function makes of the context variables
RenderContext(ctx, keys) ==
    IF keys = <<>> THEN ""
    ELSE (IF keys[1] \in DOMAIN ctx THEN " " \o keys[1] \o "=" \o ctx[keys[1]] ELSE "")
         \o RenderContext(ctx, Tail(keys))

\* Agent.getInstructions: the instructions of A and B are functions of the
\* context variables, C's are a static text
getInstructions(ag, ctx) ==
    IF ag = "A" THEN "You are A." \o RenderContext(ctx, <<"a", "flag">>)
    ELSE IF ag = "B" THEN "You are B." \o RenderContext(ctx, <<"flag">>)
    ELSE "You are " \o ag \o "."

\* Agent.getFunctionSchemas: one schema per entry of agent.functions
getFunctionSchemas(ag) ==
    [i \in DOMAIN Functions(ag) |-> Functions(ag)[i].name]

-----------------------------------------------------------------------------
(* Guardrails.  A rule is {name, validator, errorMessage}; Validator gives   *)
(* what rule.validator(text) does: "true", "false" or "throw".               *)

Rule(name, errorMessage) == [name |-> name, errorMessage |-> errorMessage]

\* BuiltInRules.*.noProfanity(["damn"]), BuiltInRules.*.minLength(3),
\* BuiltInRules.*.maxLength(4) and a validator that throws on a text with "bad"
Validator(rule, text) ==
    CASE rule.name = "no_profanity" ->
            IF Contains(text, "damn") THEN "false" ELSE "true"
      [] rule.name = "min_length" ->
            IF Len(text) >= 3 THEN "true" ELSE "false"
      [] rule.name = "strict" ->
            IF Contains(text, "bad") THEN "throw" ELSE "true"
      [] rule.name = "max_length" ->
            IF Len(text) <= 4 THEN "true" ELSE "false"
      [] OTHER -> "true"

\* agent.guardrails.inputValidation
InputValidation(ag) ==
    IF ag \in {"A", "H"} THEN << Rule("no_profanity", "profanity in input") >>
    ELSE IF ag = "B"
    THEN << Rule("min_length", "input too short"),
            Rule("no_profanity", "profanity in input") >>
    ELSE << >>

\* agent.guardrails.outputValidation
OutputValidation(ag) ==
    IF ag \in {"A", "H"}
    THEN << Rule("strict", "strict output"), Rule("min_length", "output too short") >>
    ELSE << >>

RECURSIVE RunRulesUntilFailure(_, _)
\* a loop over the rules that stops at the first failure
RunRulesUntilFailure(rules, text) ==
    IF rules = <<>> THEN <<>>
    ELSE LET r == rules[1]
             v == Validator(r, text)
         IN  CASE v = "true" -> RunRulesUntilFailure(Tail(rules), text)
               [] v = "false" -> << r.errorMessage >>
               [] OTHER -> << "Validation error in rule " \o r.name \o ": Error" >>

RECURSIVE RunRules(_, _)
\* the loop over the rules: every rule runs, failures are collected in order
RunRules(rules, text) ==
    IF rules = <<>> THEN <<>>
    ELSE LET r == rules[1]
             v == Validator(r, text)
             e == CASE v = "true" -> <<>>
                    [] v = "false" -> << r.errorMessage >>
                    [] OTHER -> << "Validation error in rule " \o r.name \o ": Error" >>
         IN  e \o RunRules(Tail(rules), text)

Validate(rules, text) ==
    IF rules = <<>> THEN [valid |-> TRUE, errors |-> <<>>]
    ELSE LET errors == RunRules(rules, text)
         IN  [valid |-> errors = <<>>, errors |-> errors]

\* Agent.validateInput
validateInput(ag, input) == Validate(InputValidation(ag), input)

\* Agent.validateOutput
validateOutput(ag, output) == Validate(OutputValidation(ag), output)

-----------------------------------------------------------------------------
(* Tracer *)

\* the arguments of one call of Tracer.addEvent
TraceEvent(type, data) == [type |-> type, data |-> data]

\* Date.now() while the run is under way (the run takes less than a
\* millisecond), and at the time of an earlier run on the instance
DateNow == 1000
DateEarlier == 900

\* the events {timestamp, type, data} that addEvent pushes at time t
Recorded(t, added) ==
    [i \in DOMAIN added |->
        [timestamp |-> t, type |-> added[i].type, data |-> added[i].data]]

\* an addEvent that records whether or not the tracer is enabled
addEventsAlways(tracerEnabled, tracerEvents, added) ==
    tracerEvents \o Recorded(DateNow, added)

\* Tracer.addEvent, for a list of events added one after the other
addEvents(tracerEnabled, tracerEvents, added) ==
    IF ~tracerEnabled THEN tracerEvents
    ELSE tracerEvents \o Recorded(DateNow, added)

\* a clear that keeps the events
clearNothing(tracerEvents) == tracerEvents

\* Tracer.clear: this.events = []
clear(tracerEvents) == <<>>

\* Tracer.getEvents: a copy of the array, an object of its own (id 0 stands
\* for an array no field of the instance refers to)
getEvents(tracerEvents) == [id |-> 0, events |-> tracerEvents]

-----------------------------------------------------------------------------
(* The callables.  Call gives what func(contextVariables, ...args) does. *)

\* a parse that takes malformed arguments for an empty object
JsonParseLenient(args) == [ok |-> TRUE, values |-> <<>>, message |-> ""]

\* JSON.parse(args) followed by Object.values(parsedArgs), for the argument
\* texts of the model
JsonParse(args) ==
    CASE args = "{}" -> [ok |-> TRUE, values |-> <<>>, message |-> ""]
      [] args = "{\"x\":\"1\"}" -> [ok |-> TRUE, values |-> <<"1">>, message |-> ""]
      [] args = "null" ->
            [ok |-> FALSE, values |-> <<>>,
             message |-> "Cannot convert undefined or null to object"]
      [] args = "" ->
            [ok |-> FALSE, values |-> <<>>, message |-> "Unexpected end of JSON input"]
      [] OTHER ->
            [ok |-> FALSE, values |-> <<>>, message |-> "Unexpected token in JSON"]

\* the members every object literal inherits from Object.prototype (a subset)
ObjectPrototype == {"toString", "constructor", "hasOwnProperty", "valueOf"}

\* Handoff.createHandoffFunction(targetAgent, updateContextVariables), applied
\* to the context variables it is called with
createHandoffFunction(targetAgent, updateContextVariables, currentContextVariables) ==
    Result(Undefined, targetAgent,
           IF updateContextVariables # UndefinedMap
           THEN Spread(currentContextVariables, updateContextVariables)
           ELSE currentContextVariables)

\* a condition of a conditional hand-off: a predicate of the context variables
Condition(name, targetAgent, updateContextVariables) ==
    [condition |-> name, targetAgent |-> targetAgent,
     updateContextVariables |-> updateContextVariables]

\* condition(contextVariables)
Holds(condition, contextVariables) ==
    CASE condition = "a is 1" ->
            "a" \in DOMAIN contextVariables /\ contextVariables["a"] = "1"
      [] condition = "has a" -> "a" \in DOMAIN contextVariables
      [] OTHER -> FALSE

RECURSIVE createConditionalHandoffLast(_, _)
\* a conditional hand-off in which the last condition that holds decides
createConditionalHandoffLast(conditions, contextVariables) ==
    IF conditions = <<>> THEN PlainValue(Null)
    ELSE LET c == conditions[Len(conditions)]
         IN  IF Holds(c.condition, contextVariables)
             THEN Result(Undefined, c.targetAgent,
                         IF c.updateContextVariables # UndefinedMap
                         THEN Spread(contextVariables, c.updateContextVariables)
                         ELSE contextVariables)
             ELSE createConditionalHandoffLast(SubSeq(conditions, 1, Len(conditions) - 1),
                                               contextVariables)

RECURSIVE ConditionsFrom(_, _)
\* the loop of conditionalHandoff over the conditions still to try: it
\* returns at the first condition that holds, and null after the loop
ConditionsFrom(conditions, contextVariables) ==
    IF conditions = <<>> THEN PlainValue(Null)
    ELSE LET c == conditions[1]
         IN  IF Holds(c.condition, contextVariables)
             THEN Result(Undefined, c.targetAgent,
                         IF c.updateContextVariables # UndefinedMap
                         THEN Spread(contextVariables, c.updateContextVariables)
                         ELSE contextVariables)
             ELSE ConditionsFrom(Tail(conditions), contextVariables)

\* Handoff.createConditionalHandoff(conditions), applied to the context
\* variables it is called with
createConditionalHandoff(conditions, contextVariables) ==
    ConditionsFrom(conditions, contextVariables)

\* the update of H's hand-off function and the conditions of H's conditional
\* hand-off
HandoffUpdate == [flag |-> "true"]
HandoffConditions ==
    << Condition("a is 1", "B", [via |-> "one"]),
       Condition("has a", "C", UndefinedMap) >>

Call(impl, contextVariables, args) ==
    CASE impl = "A.setA1" -> Result("one", Null, [a |-> "1"])
      [] impl = "A.setA2" -> Result(Undefined, Null, [a |-> "2"])
      [] impl = "A.toB"   -> Result("to B", "B", [flag |-> "true"])
      [] impl = "A.boom"  -> Thrown("kaput")
      [] impl = "A.unser" -> PlainValue(Unserializable)
      [] impl = "B.setA1" -> Result("nine", Null, [a |-> "9"])
      [] impl = "B.toA"   -> Result(Undefined, "A", UndefinedMap)
      [] impl = "B.toC"   -> AgentValue("C")
      [] impl = "H.setA1" -> Result("one", Null, [a |-> "1"])
      [] impl = "H.handoff" ->
            createHandoffFunction("B", HandoffUpdate, contextVariables)
      [] impl = "H.conditionalHandoff" ->
            createConditionalHandoff(HandoffConditions, contextVariables)
      \* Object.prototype.toString.call(undefined)
      [] impl = "Object.prototype.toString" -> PlainValue("[object Undefined]")
      \* Object(contextVariables) is the context object itself
      [] impl = "Object.prototype.constructor" -> PlainValue("[object Object]")
      \* hasOwnProperty and valueOf throw on an undefined receiver
      [] OTHER -> Thrown("Cannot convert undefined or null to object")

-----------------------------------------------------------------------------
(* Swarm.handleToolCalls *)

\* functionMap[name], for functionMap = {} filled with the callables of
\* `functions` under their func.name (a later entry replaces an earlier one)
FunctionMap(functions, name) ==
    LET own == {i \in DOMAIN functions :
                    functions[i].callable /\ functions[i].name = name}
    IN  IF own # {}
        THEN functions[CHOOSE i \in own : \A j \in own : j <= i].impl
        ELSE IF name \in ObjectPrototype
        THEN "Object.prototype." \o name
        ELSE Undefined

\* String(x), for the values of the model; Unserializable makes it throw
CanString(x) == x # Unserializable

\* String(x) of a text or of null
String(x) == IF x = Null THEN "null" ELSE x

\* Swarm.serializeResult: the text of the value, or "<throws>"
serializeResult(funcResult) ==
    CASE funcResult.kind = "Agent" -> [agent |-> funcResult.agent]
      [] funcResult.kind = "Result" ->
            [value |-> funcResult.value, agent |-> funcResult.agent,
             context_variables |-> funcResult.context_variables]
      [] OTHER -> [text |-> String(funcResult.value)]

\* a conversion that treats a returned Agent as any other value
handleFunctionResultAgentAsText(result, funcName, toolCallId) ==
    IF result.kind = "Result"
    THEN [threw |-> FALSE,
          message |-> << ToolMessage(IF result.value # Undefined
                                     THEN result.value ELSE "",
                                     funcName, toolCallId) >>,
          agent |-> result.agent,
          context_variables |-> IF result.context_variables = UndefinedMap
                                THEN EmptyMap
                                ELSE result.context_variables]
    ELSE [threw |-> FALSE,
          message |-> << ToolMessage("[object Object]", funcName, toolCallId) >>,
          agent |-> Null, context_variables |-> EmptyMap]

\* Swarm.handleFunctionResult.  threw = the TypeError of line 673
handleFunctionResult(result, funcName, toolCallId) ==
    CASE result.kind = "Result" ->
            [threw |-> FALSE,
             message |-> << ToolMessage(IF result.value # Undefined
                                        THEN String(result.value) ELSE "",
                                        funcName, toolCallId) >>,
             agent |-> result.agent,
             context_variables |-> IF result.context_variables = UndefinedMap
                                   THEN EmptyMap
                                   ELSE result.context_variables]
      [] result.kind = "Agent" ->
            [threw |-> FALSE, message |-> <<>>, agent |-> result.agent,
             context_variables |-> EmptyMap]
      [] OTHER ->
            IF ~CanString(result.value)
            THEN [threw |-> TRUE, message |-> <<>>, agent |-> Null,
                  context_variables |-> EmptyMap]
            ELSE [threw |-> FALSE,
                  message |-> << ToolMessage(IF result.value # Undefined
                                             THEN String(result.value) ELSE "",
                                             funcName, toolCallId) >>,
                  agent |-> Null, context_variables |-> EmptyMap]

\* the record of one invocation func(contextVariables, ...): what was called
\* with which context variables, and what it returned or threw
Invoked(toolCallId, name, func, contextVariables, funcResult) ==
    [id |-> toolCallId, name |-> name, impl |-> func,
     contextVariables |-> contextVariables,
     outcome |-> funcResult.kind,
     value |-> funcResult.value,
     agent |-> funcResult.agent,
     delta |-> IF funcResult.context_variables = UndefinedMap THEN EmptyMap
               ELSE funcResult.context_variables]

\* the record of one call of handleToolCalls
Dispatch(ag, toolCalls, invoked) ==
    [agent |-> ag, toolCalls |-> toolCalls, invoked |-> invoked]

\* the response object handleToolCalls builds, with what it added to the
\* trace, the callables it invoked and the error it let escape (Null: none)
ToolResponse(msgs, ag, ctx, added, invoked, escaped) ==
    [messages |-> msgs, agent |-> ag, context_variables |-> ctx,
     added |-> added, invoked |-> invoked, escaped |-> escaped]

\* a catch block that throws the error on instead of answering the call
CatchBlockRethrow(response, name, toolCallId, errorMessage, added, invoked) ==
    ToolResponse(response.messages, response.agent, response.context_variables,
                 response.added \o added, response.invoked \o invoked, errorMessage)

\* a catch block that answers the call without recording the return
CatchBlockUntraced(response, name, toolCallId, errorMessage, added, invoked) ==
    ToolResponse(
        Append(response.messages,
               ToolMessage("fn " \o name \o " execution error: " \o errorMessage,
                           name, toolCallId)),
        response.agent, response.context_variables,
        response.added \o added,
        response.invoked \o invoked,
        response.escaped)

\* the catch block of lines 583-602
CatchBlock(response, name, toolCallId, errorMessage, added, invoked) ==
    ToolResponse(
        Append(response.messages,
               ToolMessage("fn " \o name \o " execution error: " \o errorMessage,
                           name, toolCallId)),
        response.agent, response.context_variables,
        response.added \o added
            \o << TraceEvent("function_return", [name |-> name, error |-> errorMessage]) >>,
        response.invoked \o invoked,
        response.escaped)

\* a dispatch that drops the re-target of a result
SetAgentNever(responseAgent, resultAgent) == responseAgent

\* a dispatch in which the first re-target of a batch stands
SetAgentFirst(responseAgent, resultAgent) ==
    IF responseAgent # Null THEN responseAgent ELSE resultAgent

\* lines 579-582: if (result.agent) response.agent = result.agent
SetAgent(responseAgent, resultAgent) ==
    IF resultAgent # Null THEN resultAgent ELSE responseAgent

\* a call that sees the deltas of the earlier calls of its batch
CallContextAccumulated(response, contextVariables) ==
    Spread(contextVariables, response.context_variables)

\* the first argument of func(contextVariables, ...) at line 557: the
\* parameter of handleToolCalls, whatever `response` holds by now
CallContext(response, contextVariables) == contextVariables

\* a lookup that follows the re-target of an earlier call of the batch
FunctionsOfRetarget(response, functions) ==
    IF response.agent # Null THEN Functions(response.agent) ELSE functions

\* the functions that functionMap was filled from at lines 519-527, before
\* the loop: the parameter of handleToolCalls, whatever `response` holds by now
FunctionsInScope(response, functions) == functions

\* a dispatch that takes every requested call for a function call
IsFunctionCallAlways(toolCall) == TRUE

\* line 536: if (toolCall.type === 'function')
IsFunctionCall(toolCall) == toolCall.type = "function"

\* one iteration of the loop of lines 535-624 over `response`
HandleToolCall(response, toolCall, functions, contextVariables) ==
    IF ~IsFunctionCall(toolCall) THEN response
    ELSE
    LET name == toolCall.name
        args == toolCall.arguments
        toolCallId == toolCall.id
        called == << TraceEvent("function_call", [name |-> name, arguments |-> args]) >>
        func == FunctionMap(FunctionsInScope(response, functions), name)
        parsedArgs == JsonParse(args)
        funcResult == Call(func, CallContext(response, contextVariables), parsedArgs.values)
        invoked == << Invoked(toolCallId, name, func,
                              CallContext(response, contextVariables), funcResult) >>
        result == handleFunctionResult(funcResult, name, toolCallId)
    IN  IF func # Undefined
        THEN
            IF ~parsedArgs.ok
            THEN CatchBlock(response, name, toolCallId, parsedArgs.message, called, <<>>)
            ELSE IF funcResult.kind = "throw"
            THEN CatchBlock(response, name, toolCallId, funcResult.value, called, invoked)
            ELSE IF funcResult.kind = "other" /\ ~CanString(funcResult.value)
            \* String(result) throws in serializeResult, inside the try
            THEN CatchBlock(response, name, toolCallId,
                            "Cannot convert object to primitive value", called, invoked)
            ELSE IF result.threw
            THEN CatchBlock(response, name, toolCallId,
                            "return value cannot be converted to a string",
                            called, invoked)
            ELSE ToolResponse(
                    response.messages \o result.message,
                    SetAgent(response.agent, result.agent),
                    Spread(response.context_variables, result.context_variables),
                    response.added \o called
                        \o << TraceEvent("function_return",
                                 [name |-> name, result |-> serializeResult(funcResult)]) >>,
                    response.invoked \o invoked,
                    response.escaped)
        ELSE
            LET errorMessage == "fn " \o name \o " not found"
            IN  ToolResponse(
                    Append(response.messages, ToolMessage(errorMessage, name, toolCallId)),
                    response.agent, response.context_variables,
                    response.added \o called
                        \o << TraceEvent("function_return",
                                 [name |-> name, error |-> errorMessage]) >>,
                    response.invoked,
                    response.escaped)

RECURSIVE HandleFrom(_, _, _, _)
\* the loop of lines 535-624; an escaped error ends it
HandleFrom(response, toolCalls, functions, contextVariables) ==
    IF toolCalls = <<>> \/ response.escaped # Null THEN response
    ELSE HandleFrom(HandleToolCall(response, toolCalls[1], functions, contextVariables),
                    Tail(toolCalls), functions, contextVariables)

\* a dispatch that returns the messages of the batch last first
handleToolCallsLastFirst(toolCalls, functions, contextVariables) ==
    LET response == HandleFrom(ToolResponse(<<>>, Null, EmptyMap, <<>>, <<>>, Null),
                               toolCalls, functions, contextVariables)
        n == Len(response.messages)
    IN  [response EXCEPT !.messages = [i \in 1..n |-> response.messages[n + 1 - i]]]

\* Swarm.handleToolCalls
handleToolCalls(toolCalls, functions, contextVariables) ==
    HandleFrom(ToolResponse(<<>>, Null, EmptyMap, <<>>, <<>>, Null),
               toolCalls, functions, contextVariables)

-----------------------------------------------------------------------------
(* What the caller and the model provider may supply *)

\* the message lists a caller passes
InputMessages ==
    { << UserMessage("hello") >>,
      << UserMessage("damn") >>,
      << UserMessage("") >>,
      << UserMessage("hello"), UserMessage("hi") >> }

\* the context variables a caller passes
InputContexts == { EmptyMap, [a |-> "0"] }

\* what a caller starts a run with: agent A with one of the message lists and
\* no context variables, or with one message and one of the contexts, or
\* agent C with one user message and no context variables
Inputs ==
    { [agent |-> "A", messages |-> m, context_variables |-> EmptyMap] :
          m \in InputMessages }
    \cup { [agent |-> "A", messages |-> << UserMessage("hello") >>,
             context_variables |-> c] : c \in InputContexts }
    \cup { [agent |-> "C", messages |-> << UserMessage("hello") >>,
             context_variables |-> EmptyMap] }

\* the names a provider asks agent `ag` to call: callables of the agent, the
\* unknown name "foo" and the name "toString"
RequestedNames(ag) ==
    IF ag = "A" THEN {"setA1", "setA2", "toB", "boom", "unser", "foo", "toString"}
    ELSE IF ag = "B" THEN {"setA1", "toA", "toC", "foo"}
    ELSE IF ag = "H" THEN {"setA1", "handoff", "conditionalHandoff"}
    ELSE {"foo", "toString"}

\* the tool calls a provider may request of agent `ag`:
\* {type, function: {name, arguments}}, the arguments "{}" or, for setA1, also
\* the malformed "{"
CallPool(ag) ==
    { ToolCall(Undefined, "function", n, "{}") : n \in RequestedNames(ag) }
    \cup { ToolCall(Undefined, "function", n, "{") : n \in RequestedNames(ag) \cap {"setA1"} }

\* the id the provider gives its n-th tool call
CallId(n) == "call_" \o ToString(n)

RECURSIVE Batches(_, _, _)
\* the batches of at most n tool calls, the first of them numbered `first`
Batches(ag, first, n) ==
    IF n = 0 THEN { <<>> }
    ELSE { <<>> } \cup
         { << [c EXCEPT !.id = CallId(first)] >> \o rest :
               c \in CallPool(ag), rest \in Batches(ag, first + 1, n - 1) }

\* the assistant messages {content, tool_calls} a provider may answer agent
\* `ag` with, when `used` tool calls have been requested before: a text, a
\* batch of tool calls without text, or one tool call with a text
Responses(ag, used) ==
    { [content |-> c, tool_calls |-> <<>>] : c \in {"Hello", "bad"} }
    \cup { [content |-> Null, tool_calls |-> b] :
               b \in Batches(ag, used + 1, MaxToolCalls - used) \ { <<>> } }
    \cup { [content |-> "bad", tool_calls |-> b] :
               b \in Batches(ag, used + 1, IF used < MaxToolCalls THEN 1 ELSE 0) \ { <<>> } }

-----------------------------------------------------------------------------
(* Parts shared by Swarm.run and Swarm.runWithStream *)

model_override == Null

\* an assignment in place of the push: currentMessages = [message]
PushDroppingHistory(msgs, message) == << message >>

\* currentMessages.push(message)
Push(msgs, message) == Append(msgs, message)

\* the caller's array after a push on a currentMessages that is the caller's
\* array itself: let currentMessages = messages
CallersArrayPushed(callers, local) == local

\* the caller's array after a push on currentMessages, whose value is now
\* `local`: currentMessages is the copy [...messages] of lines 72 and 241, a
\* different array, and the push does not reach the caller's
CallersArray(callers, local) == callers

\* m.content.substring(0, 100) + (m.content.length > 100 ? '...' : '')
Truncate(content) ==
    IF content = Null \/ content = "" THEN Null
    ELSE IF Len(content) > 100 THEN SubSeq(content, 1, 100) \o "..."
    ELSE content

RECURSIVE ValidateFirstMessageOnly(_, _, _)
\* a validation that stops after the first user message it has checked
ValidateFirstMessageOnly(ag, msgs, i) ==
    IF i > Len(msgs) THEN [added |-> <<>>, errors |-> <<>>]
    ELSE IF msgs[i].role = "user" /\ Truthy(msgs[i].content)
    THEN LET validationResult == validateInput(ag, msgs[i].content)
         IN  [added |-> << TraceEvent("guardrail_check",
                              [type |-> "input_validation",
                               success |-> validationResult.valid]) >>,
              errors |-> validationResult.errors]
    ELSE ValidateFirstMessageOnly(ag, msgs, i + 1)

RECURSIVE ValidateMessages(_, _, _)
\* the loop of lines 97-116 (265-285) from message i on: the guardrail events
\* it records and the errors of the first message that fails (<<>>: none fails)
ValidateMessages(ag, msgs, i) ==
    IF i > Len(msgs) THEN [added |-> <<>>, errors |-> <<>>]
    ELSE IF msgs[i].role = "user" /\ Truthy(msgs[i].content)
    THEN LET validationResult == validateInput(ag, msgs[i].content)
         IN  IF ~validationResult.valid
             THEN [added |-> << TraceEvent("guardrail_check",
                                  [type |-> "input_validation", success |-> FALSE,
                                   errors |-> validationResult.errors]) >>,
                   errors |-> validationResult.errors]
             ELSE LET rest == ValidateMessages(ag, msgs, i + 1)
                  IN  [added |-> << TraceEvent("guardrail_check",
                                       [type |-> "input_validation", success |-> TRUE]) >>
                                 \o rest.added,
                       errors |-> rest.errors]
    ELSE ValidateMessages(ag, msgs, i + 1)

\* the model_call event of lines 119-125 (297-303)
ModelCallEvent(ag, msgs) ==
    TraceEvent("model_call",
        [model |-> IF Truthy(model_override) THEN model_override ELSE Model(ag),
         messages |-> [i \in DOMAIN msgs |->
                          [role |-> msgs[i].role, content |-> Truncate(msgs[i].content)]]])

\* createParams made from the agent and the context the run was started with
getChatCompletionOfStart(ag, history, ctx, isStream) ==
    [model |-> IF Truthy(model_override) THEN model_override ELSE Model(agent),
     messages |-> << Message("system", getInstructions(agent, context_variables),
                             Undefined, Undefined, <<>>) >>
                  \o history,
     tools |-> getFunctionSchemas(agent),
     stream |-> isStream]

\* createParams of Swarm.getChatCompletion
getChatCompletion(ag, history, ctx, isStream) ==
    [model |-> IF Truthy(model_override) THEN model_override ELSE Model(ag),
     messages |-> << Message("system", getInstructions(ag, ctx), Undefined, Undefined, <<>>) >>
                  \o history,
     tools |-> getFunctionSchemas(ag),
     stream |-> isStream]

\* an output check that records only the successes
OutputCheckSilent(ag, content) ==
    IF ~Truthy(content) THEN <<>>
    ELSE IF ~validateOutput(ag, content).valid THEN <<>>
    ELSE << TraceEvent("guardrail_check",
               [type |-> "output_validation", success |-> TRUE]) >>

\* the guardrail_check event of lines 141-158 (398-422), if any
OutputCheck(ag, content) ==
    IF ~Truthy(content) THEN <<>>
    ELSE LET validationResult == validateOutput(ag, content)
         IN  IF ~validationResult.valid
             THEN << TraceEvent("guardrail_check",
                        [type |-> "output_validation", success |-> FALSE,
                         errors |-> validationResult.errors]) >>
             ELSE << TraceEvent("guardrail_check",
                        [type |-> "output_validation", success |-> TRUE]) >>

\* the condition without its execute_tools conjunct
ShouldExecuteAlways(tool_calls, executeTools) == Len(tool_calls) > 0

\* the condition of lines 168 and 425-427
ShouldExecute(tool_calls, executeTools) == Len(tool_calls) > 0 /\ executeTools

\* a loop that no turn limit ends
LoopConditionAlways(n, maxTurns) == TRUE

\* the condition of the while loops of lines 95 and 264
LoopCondition(n, maxTurns) == n < maxTurns

AgentStart(ag, ctx) ==
    TraceEvent("agent_start", [agent |-> ag, instructions |-> getInstructions(ag, ctx)])

\* an agent_end event that names the executor the run was started with
AgentEndOfStart(ag) == TraceEvent("agent_end", [agent |-> agent])

AgentEnd(ag) == TraceEvent("agent_end", [agent |-> ag])

\* what the provider did with a backend call: it answered with an assistant
\* message {content, tool_calls}, or it failed
Answer(content, tool_calls) ==
    [failed |-> FALSE, content |-> content, tool_calls |-> tool_calls]
Failure == [failed |-> TRUE, content |-> Null, tool_calls |-> <<>>]

\* no second run on the instance, and no validation called by itself
OtherOff == [pc |-> "off"]
NoProbe == [pc |-> "off"]

NoCollected == [content |-> "", tool_calls |-> <<>>]
NoToolResult == ToolResponse(<<>>, Null, EmptyMap, <<>>, <<>>, Null)

-----------------------------------------------------------------------------
(* The loop of Swarm.run (lines 95-209) as a function of its conversation    *)
(* state and of the answers the provider gives, the answers of `answers` in  *)
(* turn.  It gives the conversation state the loop ends with and how it ends: *)
(* "returned", "thrown", or "waiting" for an answer beyond `answers`.        *)

Conversation(status, ag, msgs, ctx, n) ==
    [status |-> status, agent |-> ag, messages |-> msgs, context_variables |-> ctx,
     turns |-> n]

RECURSIVE RunLoop(_, _, _, _)
RunLoop(cur, answers, maxTurns, executeTools) ==
    IF ~LoopCondition(cur.turns, maxTurns) THEN [cur EXCEPT !.status = "returned"]
    ELSE IF ValidateMessages(cur.agent, cur.messages, 1).errors # <<>>
    THEN [cur EXCEPT !.status = "thrown"]
    ELSE IF answers = <<>> THEN [cur EXCEPT !.status = "waiting"]
    ELSE IF answers[1].failed THEN [cur EXCEPT !.status = "thrown"]
    ELSE
    LET responseMessage == answers[1]
        pushed == Push(cur.messages,
                       Message("assistant", responseMessage.content, Undefined,
                               Undefined, responseMessage.tool_calls))
        toolResult == handleToolCalls(responseMessage.tool_calls,
                                          Functions(cur.agent), cur.context_variables)
    IN  IF ShouldExecute(responseMessage.tool_calls, executeTools)
        THEN IF toolResult.agent # Null
             THEN RunLoop(Conversation("running", toolResult.agent,
                                       pushed \o toolResult.messages,
                                       Spread(cur.context_variables,
                                              toolResult.context_variables),
                                       cur.turns + 1),
                          Tail(answers), maxTurns, executeTools)
             ELSE Conversation("returned", cur.agent,
                               pushed \o toolResult.messages,
                               Spread(cur.context_variables,
                                      toolResult.context_variables),
                               cur.turns + 1)
        ELSE Conversation("returned", cur.agent, pushed, cur.context_variables,
                          cur.turns)

\* Swarm.run(agent, messages, context_variables, false, max_turns,
\* execute_tools) with a provider that gives the answers of `answers`
RunBatched(ag, msgs, ctx, maxTurns, executeTools, answers) ==
    RunLoop(Conversation("running", ag, msgs, ctx, 0), answers, maxTurns, executeTools)

-----------------------------------------------------------------------------
(* State after construction: new Swarm({enableTracing}) and no run yet *)

\* the variables of a run before the run, and the fields of a new Swarm that
\* no earlier use of the instance changes
Constructed(enableTracing) ==
    /\ pc = "idle"
    /\ enabled = enableTracing
    /\ stream = FALSE /\ max_turns = 0 /\ execute_tools = TRUE
    /\ agent = "A" /\ messages = <<>> /\ context_variables = EmptyMap
    /\ currentAgent = "A" /\ currentMessages = <<>> /\ currentContextVars = EmptyMap
    /\ turns = 0
    /\ request = Null
    /\ backendCalls = 0
    /\ dispatches = <<>>
    /\ chunks = <<>>
    /\ collected = NoCollected
    /\ toolCallResult = NoToolResult
    /\ yieldIndex = 0
    /\ steps = <<>>
    /\ error = Null
    /\ responses = <<>>
    /\ eventsId = 1

\* new Swarm(): enableTracing defaults to true
NoRun == Constructed(TRUE)

Init ==
    /\ NoRun
    /\ events = <<>>
    /\ nextId = 0
    /\ earlier = <<>>
    /\ other = OtherOff
    /\ probe = NoProbe

\* Swarm.run up to the loop (lines 64-87) and runWithStream (lines 238-256)
StartRunFrom(inputs) ==
    /\ pc = "idle"
    /\ \E s \in BOOLEAN, mt \in 0..MaxTurns, et \in BOOLEAN, in \in inputs :
         /\ stream' = s /\ max_turns' = mt /\ execute_tools' = et
         /\ agent' = in.agent
         /\ messages' = in.messages
         /\ context_variables' = in.context_variables
         /\ currentAgent' = in.agent
         /\ currentMessages' = in.messages
         /\ currentContextVars' = in.context_variables
         /\ events' = addEvents(enabled, clear(events),
                                << AgentStart(in.agent, in.context_variables) >>)
         /\ pc' = IF s THEN "s_loop" ELSE "loop"
    /\ turns' = 0
    /\ UNCHANGED <<request, backendCalls, dispatches, nextId, chunks, collected,
                   toolCallResult, yieldIndex, steps, enabled, error,
                   responses, aux>>
    /\ eventsId' = eventsId + 1

\* a run of one of the callers of the model
StartRun == StartRunFrom(Inputs)

-----------------------------------------------------------------------------
(* Swarm.run, the batched variant *)

\* while (turns < max_turns) is false: lines 211-222
LoopExit ==
    /\ pc = "loop"
    /\ ~LoopCondition(turns, max_turns)
    /\ events' = addEvents(enabled, events, << AgentEnd(currentAgent) >>)
    /\ pc' = "done"
    /\ UNCHANGED <<stream, max_turns, execute_tools, agent, messages, context_variables,
                   currentAgent, currentMessages, currentContextVars, turns,
                   request, backendCalls, dispatches, nextId, chunks, collected,
                   toolCallResult, yieldIndex, steps, enabled, error,
                   responses, eventsId, aux>>

\* lines 95-109: a user message fails the input rules, the run throws
InputRejected ==
    /\ pc = "loop"
    /\ LoopCondition(turns, max_turns)
    /\ LET v == ValidateMessages(currentAgent, currentMessages, 1)
       IN  /\ v.errors # <<>>
           /\ events' = addEvents(enabled, events, v.added)
           /\ error' = "input validation failed: " \o Join(v.errors, ", ")
    /\ pc' = "thrown"
    /\ UNCHANGED <<stream, max_turns, execute_tools, agent, messages, context_variables,
                   currentAgent, currentMessages, currentContextVars, turns,
                   request, backendCalls, dispatches, nextId, chunks, collected,
                   toolCallResult, yieldIndex, steps, enabled,
                   responses, eventsId, aux>>

\* lines 95-135: the user messages pass, the request goes to the provider
ModelCall ==
    /\ pc = "loop"
    /\ LoopCondition(turns, max_turns)
    /\ LET v == ValidateMessages(currentAgent, currentMessages, 1)
       IN  /\ v.errors = <<>>
           /\ events' = addEvents(enabled, events,
                            v.added \o << ModelCallEvent(currentAgent, currentMessages) >>)
    /\ request' = getChatCompletion(currentAgent, currentMessages, currentContextVars, FALSE)
    /\ backendCalls' = backendCalls + 1
    /\ pc' = "model"
    /\ UNCHANGED <<stream, max_turns, execute_tools, agent, messages, context_variables,
                   currentAgent, currentMessages, currentContextVars, turns,
                   dispatches, nextId, chunks, collected,
                   toolCallResult, yieldIndex, steps, enabled, error,
                   responses, eventsId, aux>>

\* the provider rejects: the await of line 128 throws out of run
ProviderError ==
    /\ pc = "model"
    /\ pc' = "thrown"
    /\ error' = "provider error"
    /\ UNCHANGED <<stream, max_turns, execute_tools, agent, messages, context_variables,
                   currentAgent, currentMessages, currentContextVars, turns, events,
                   request, backendCalls, dispatches, nextId, chunks, collected,
                   toolCallResult, yieldIndex, steps, enabled,
                   eventsId, aux>>
    /\ responses' = Append(responses, Failure)

\* lines 137-222 for the provider's answer responseMessage
Respond(responseMessage) ==
    LET checked == OutputCheck(currentAgent, responseMessage.content)
        pushed == Push(currentMessages,
                       Message("assistant", responseMessage.content, Undefined,
                               Undefined, responseMessage.tool_calls))
        result == handleToolCalls(responseMessage.tool_calls,
                                  Functions(currentAgent), currentContextVars)
    IN  IF ShouldExecute(responseMessage.tool_calls, execute_tools)
        THEN
            /\ turns' = turns + 1
            /\ dispatches' = Append(dispatches, Dispatch(currentAgent, responseMessage.tool_calls, result.invoked))
            /\ IF result.escaped # Null
               THEN /\ pc' = "thrown"
                    /\ error' = result.escaped
                    /\ events' = addEvents(enabled, events, checked \o result.added)
                    /\ currentMessages' = pushed
                    /\ UNCHANGED <<currentAgent, currentContextVars>>
               ELSE /\ currentMessages' = pushed \o result.messages
                    /\ currentContextVars' =
                           Spread(currentContextVars, result.context_variables)
                    /\ error' = error
                    /\ IF result.agent # Null
                       THEN /\ events' = addEvents(enabled, events,
                                  checked \o result.added \o
                                  << TraceEvent("handoff",
                                       [from |-> currentAgent, to |-> result.agent,
                                        context_update |-> result.context_variables]) >>)
                            /\ currentAgent' = result.agent
                            /\ pc' = "loop"
                       ELSE /\ events' = addEvents(enabled, events,
                                  checked \o result.added \o << AgentEnd(currentAgent) >>)
                            /\ currentAgent' = currentAgent
                            /\ pc' = "done"
        ELSE
            /\ currentMessages' = pushed
            /\ events' = addEvents(enabled, events, checked \o << AgentEnd(currentAgent) >>)
            /\ pc' = "done"
            /\ UNCHANGED <<currentAgent, currentContextVars, turns, dispatches, error>>

\* the provider answers the request of line 128
ProviderRespond ==
    /\ pc = "model"
    /\ \E responseMessage \in Responses(currentAgent, nextId) :
         /\ responses' = Append(responses, Answer(responseMessage.content,
                                                   responseMessage.tool_calls))
         /\ nextId' = nextId + Len(responseMessage.tool_calls)
         /\ Respond(responseMessage)
         /\ messages' = CallersArray(messages,
                            Push(currentMessages,
                                 Message("assistant", responseMessage.content, Undefined,
                                         Undefined, responseMessage.tool_calls)))
    /\ UNCHANGED <<stream, max_turns, execute_tools, agent, context_variables,
                   request, backendCalls, chunks, collected,
                   toolCallResult, yieldIndex, steps, enabled,
                   eventsId, aux>>

-----------------------------------------------------------------------------
(* Swarm.runWithStream, the streaming variant.  pc names the yield at which  *)
(* the generator is suspended; an action is the code run between two yields  *)
(* (or up to the await of the provider's next chunk).                        *)

Delta(index, id, type, name, arguments) ==
    [index |-> index, id |-> id, type |-> type, name |-> name, arguments |-> arguments]

Chunk(content, tool_calls) == [content |-> content, tool_calls |-> tool_calls]

RECURSIVE CallChunks(_, _)
\* the chunks that announce the tool calls from the i-th on: for each call one
\* chunk with its id, type, name and the first character of its arguments,
\* and one with the rest of the arguments
CallChunks(tool_calls, i) ==
    IF i > Len(tool_calls) THEN <<>>
    ELSE LET c == tool_calls[i]
             n == Len(c.arguments)
         IN  << Chunk(Undefined,
                      << Delta(i - 1, c.id, c.type, c.name,
                               IF n = 0 THEN Undefined ELSE SubSeq(c.arguments, 1, 1)) >>) >>
             \o (IF n > 1
                 THEN << Chunk(Undefined,
                               << Delta(i - 1, Undefined, Undefined, Undefined,
                                        SubSeq(c.arguments, 2, n)) >>) >>
                 ELSE <<>>)
             \o CallChunks(tool_calls, i + 1)

\* the chunks in which a provider streams the assistant message `response`
Chunking(response) ==
    (IF Truthy(response.content) THEN << Chunk(response.content, <<>>) >> ELSE <<>>)
    \o CallChunks(response.tool_calls, 1)

RECURSIVE Pad(_, _)
\* the while loop of lines 345-351
Pad(tool_calls, toolCallIndex) ==
    IF Len(tool_calls) <= toolCallIndex
    THEN Pad(Append(tool_calls, ToolCall("", "", "", "")), toolCallIndex)
    ELSE tool_calls

\* an accumulation that writes every fragment to the last slot
ApplyDeltaToLast(tool_calls, d) ==
    LET padded == Pad(tool_calls, d.index)
        cur == padded[Len(padded)]
    IN  [padded EXCEPT ![Len(padded)] =
            ToolCall(IF Truthy(d.id) THEN d.id ELSE cur.id,
                     IF Truthy(d.type) THEN d.type ELSE cur.type,
                     IF Truthy(d.name) THEN d.name ELSE cur.name,
                     IF Truthy(d.arguments) THEN cur.arguments \o d.arguments
                     ELSE cur.arguments)]

\* lines 342-372 for one toolCallDelta
ApplyDelta(tool_calls, d) ==
    LET padded == Pad(tool_calls, d.index)
        cur == padded[d.index + 1]
    IN  [padded EXCEPT ![d.index + 1] =
            ToolCall(IF Truthy(d.id) THEN d.id ELSE cur.id,
                     IF Truthy(d.type) THEN d.type ELSE cur.type,
                     IF Truthy(d.name) THEN d.name ELSE cur.name,
                     IF Truthy(d.arguments) THEN cur.arguments \o d.arguments
                     ELSE cur.arguments)]

RECURSIVE ApplyDeltas(_, _)
\* the loop of lines 341-381: the slots after the deltas and the tool_call
\* steps yielded on the way
ApplyDeltas(acc, deltas) ==
    IF deltas = <<>> THEN acc
    ELSE LET tc == ApplyDelta(acc.tool_calls, deltas[1])
             cur == tc[deltas[1].index + 1]
         IN  ApplyDeltas(
                [tool_calls |-> tc,
                 yielded |-> acc.yielded \o
                     (IF Truthy(cur.name)
                      THEN << [type |-> "tool_call", tool_call |-> cur] >>
                      ELSE <<>>)],
                Tail(deltas))

\* a complete step that carries what the caller passed
CompleteWithInputs(evs, msgs, ag, ctx) ==
    LET trace == addEvents(enabled, evs, << AgentEnd(ag) >>)
    IN  /\ events' = trace
        /\ steps' = Append(steps, [type |-> "complete", messages |-> messages,
                                   agent |-> agent,
                                   context_variables |-> context_variables,
                                   trace |-> trace])
        /\ pc' = "done"

\* lines 492-503: the agent_end event and the complete step
Complete(evs, msgs, ag, ctx) ==
    LET trace == addEvents(enabled, evs, << AgentEnd(ag) >>)
    IN  /\ events' = trace
        /\ steps' = Append(steps, [type |-> "complete", messages |-> msgs, agent |-> ag,
                                   context_variables |-> ctx, trace |-> trace])
        /\ pc' = "done"

\* while (turns < max_turns) is false: lines 492-503
StreamLoopExit ==
    /\ pc = "s_loop"
    /\ ~LoopCondition(turns, max_turns)
    /\ Complete(events, currentMessages, currentAgent, currentContextVars)
    /\ UNCHANGED <<stream, max_turns, execute_tools, agent, messages, context_variables,
                   currentAgent, currentMessages, currentContextVars, turns,
                   request, backendCalls, dispatches, nextId, chunks, collected,
                   toolCallResult, yieldIndex, enabled, error,
                   responses, eventsId, aux>>

\* lines 264-278: a user message fails the input rules, the generator throws
StreamInputRejected ==
    /\ pc = "s_loop"
    /\ LoopCondition(turns, max_turns)
    /\ LET v == ValidateMessages(currentAgent, currentMessages, 1)
       IN  /\ v.errors # <<>>
           /\ events' = addEvents(enabled, events, v.added)
           /\ error' = "input validation failed: " \o Join(v.errors, ", ")
    /\ pc' = "thrown"
    /\ UNCHANGED <<stream, max_turns, execute_tools, agent, messages, context_variables,
                   currentAgent, currentMessages, currentContextVars, turns,
                   request, backendCalls, dispatches, nextId, chunks, collected,
                   toolCallResult, yieldIndex, steps, enabled,
                   responses, eventsId, aux>>

\* lines 264-293: the user messages pass, turns++, the stream_start step
StreamStart ==
    /\ pc = "s_loop"
    /\ LoopCondition(turns, max_turns)
    /\ LET v == ValidateMessages(currentAgent, currentMessages, 1)
       IN  /\ v.errors = <<>>
           /\ events' = addEvents(enabled, events, v.added)
    /\ turns' = turns + 1
    /\ steps' = Append(steps, [type |-> "stream_start", agent |-> currentAgent])
    /\ pc' = "s_open"
    /\ UNCHANGED <<stream, max_turns, execute_tools, agent, messages, context_variables,
                   currentAgent, currentMessages, currentContextVars,
                   request, backendCalls, dispatches, nextId, chunks, collected,
                   toolCallResult, yieldIndex, enabled, error,
                   responses, eventsId, aux>>

\* lines 295-320: the model_call event, the request, and the stream the
\* provider opens for it
StreamOpen ==
    /\ pc = "s_open"
    /\ events' = addEvents(enabled, events,
                           << ModelCallEvent(currentAgent, currentMessages) >>)
    /\ request' = getChatCompletion(currentAgent, currentMessages, currentContextVars, TRUE)
    /\ backendCalls' = backendCalls + 1
    /\ \E response \in Responses(currentAgent, nextId) :
         /\ chunks' = Chunking(response)
         /\ nextId' = nextId + Len(response.tool_calls)
    /\ collected' = NoCollected
    /\ pc' = "s_chunks"
    /\ UNCHANGED <<stream, max_turns, execute_tools, agent, messages, context_variables,
                   currentAgent, currentMessages, currentContextVars, turns,
                   dispatches, toolCallResult, yieldIndex, steps, enabled, error,
                   responses, eventsId, aux>>

\* lines 323-383 for one chunk of the stream
StreamChunk ==
    /\ pc = "s_chunks"
    /\ chunks # <<>>
    /\ LET delta == Head(chunks)
           content == IF Truthy(delta.content)
                      THEN collected.content \o delta.content
                      ELSE collected.content
           applied == ApplyDeltas([tool_calls |-> collected.tool_calls, yielded |-> <<>>],
                                  delta.tool_calls)
       IN  /\ collected' = [content |-> content, tool_calls |-> applied.tool_calls]
           /\ steps' = steps
                  \o (IF Truthy(delta.content)
                      THEN << [type |-> "content", content |-> delta.content] >>
                      ELSE <<>>)
                  \o applied.yielded
    /\ chunks' = Tail(chunks)
    /\ UNCHANGED <<pc, stream, max_turns, execute_tools, agent, messages,
                   context_variables, currentAgent, currentMessages, currentContextVars,
                   turns, events, request, backendCalls, dispatches, nextId,
                   toolCallResult, yieldIndex, enabled, error,
                   responses, eventsId, aux>>

\* a stream failure that leaves the generator as a throw
StreamErrorThrows ==
    /\ pc = "s_chunks"
    /\ pc' = "thrown"
    /\ error' = "provider error"
    /\ UNCHANGED <<stream, max_turns, execute_tools, agent, messages, context_variables,
                   currentAgent, currentMessages, currentContextVars, turns, events,
                   request, backendCalls, dispatches, nextId, chunks, collected,
                   toolCallResult, yieldIndex, steps, enabled,
                   eventsId, aux>>
    /\ responses' = Append(responses, Failure)

\* the provider's stream fails: the catch of lines 480-489 yields an error step
StreamError ==
    /\ pc = "s_chunks"
    /\ steps' = Append(steps, [type |-> "error", error |-> "Error: provider error"])
    /\ pc' = "s_break"
    /\ UNCHANGED <<stream, max_turns, execute_tools, agent, messages, context_variables,
                   currentAgent, currentMessages, currentContextVars, turns, events,
                   request, backendCalls, dispatches, nextId, chunks, collected,
                   toolCallResult, yieldIndex, enabled, error,
                   eventsId, aux>>
    /\ responses' = Append(responses, Failure)

\* the provider closes the stream: lines 385-395
StreamEnd ==
    /\ pc = "s_chunks"
    /\ chunks = <<>>
    /\ currentMessages' = Push(currentMessages,
                               Message("assistant", collected.content, Undefined,
                                       Undefined, collected.tool_calls))
    /\ messages' = CallersArray(messages, currentMessages')
    /\ steps' = Append(steps, [type |-> "stream_end", messages |-> currentMessages'])
    /\ pc' = "s_validate"
    /\ UNCHANGED <<stream, max_turns, execute_tools, agent, context_variables,
                   currentAgent, currentContextVars, turns, events,
                   request, backendCalls, dispatches, nextId, chunks, collected,
                   toolCallResult, yieldIndex, enabled, error,
                   eventsId, aux>>
    /\ responses' = Append(responses, Answer(collected.content, collected.tool_calls))

\* lines 397-415: the output fails the rules, the validation_failed step
StreamValidationFailed ==
    /\ pc = "s_validate"
    /\ Truthy(collected.content)
    /\ LET validationResult == validateOutput(currentAgent, collected.content)
       IN  /\ ~validationResult.valid
           /\ steps' = Append(steps, [type |-> "validation_failed",
                                      errors |-> validationResult.errors])
    /\ events' = addEvents(enabled, events, OutputCheck(currentAgent, collected.content))
    /\ pc' = "s_tools"
    /\ UNCHANGED <<stream, max_turns, execute_tools, agent, messages, context_variables,
                   currentAgent, currentMessages, currentContextVars, turns,
                   request, backendCalls, dispatches, nextId, chunks, collected,
                   toolCallResult, yieldIndex, enabled, error,
                   responses, eventsId, aux>>

\* the end of an iteration that forgets the context update of the batch
AfterToolsKeepContext(evs, msgs, result) ==
    /\ currentContextVars' = currentContextVars
    /\ IF result.agent # Null
       THEN /\ events' = addEvents(enabled, evs,
                  << TraceEvent("handoff",
                        [from |-> currentAgent, to |-> result.agent,
                         context_update |-> result.context_variables]) >>)
            /\ currentAgent' = result.agent
            /\ steps' = Append(steps, [type |-> "handoff", from |-> agent,
                                       to |-> result.agent])
            /\ pc' = "s_loop"
       ELSE /\ currentAgent' = currentAgent
            /\ Complete(evs, msgs, currentAgent, currentContextVars)

\* an end of the iteration that goes on to the next iteration whether or not
\* the batch re-targeted
AfterToolsContinue(evs, msgs, result) ==
    /\ currentContextVars' = Spread(currentContextVars, result.context_variables)
    /\ currentAgent' = IF result.agent # Null THEN result.agent ELSE currentAgent
    /\ events' = evs
    /\ steps' = steps
    /\ pc' = "s_loop"

\* lines 447-479 and 492-503: after the tool_response steps of `result`, up to
\* the handoff step or the complete step
AfterTools(evs, msgs, result) ==
    LET ctx == Spread(currentContextVars, result.context_variables)
    IN  /\ currentContextVars' = ctx
        /\ IF result.agent # Null
           THEN /\ events' = addEvents(enabled, evs,
                      << TraceEvent("handoff",
                            [from |-> currentAgent, to |-> result.agent,
                             context_update |-> result.context_variables]) >>)
                /\ currentAgent' = result.agent
                /\ steps' = Append(steps, [type |-> "handoff", from |-> agent,
                                           to |-> result.agent])
                /\ pc' = "s_loop"
           ELSE /\ currentAgent' = currentAgent
                /\ Complete(evs, msgs, currentAgent, ctx)

\* lines 416-445 (from the validation_failed step or the stream_end step on):
\* the batch is dispatched and its first tool_response step is yielded; with
\* nothing to dispatch the loop ends
StreamTools ==
    /\ \/ pc = "s_tools"
       \/ /\ pc = "s_validate"
          /\ Truthy(collected.content) => validateOutput(currentAgent, collected.content).valid
    /\ \E result \in { handleToolCalls(collected.tool_calls, Functions(currentAgent),
                                         currentContextVars) } :
       LET evs == IF pc = "s_validate"
                  THEN addEvents(enabled, events,
                                 OutputCheck(currentAgent, collected.content))
                  ELSE events
           msgs == currentMessages \o result.messages
       IN  IF ShouldExecute(collected.tool_calls, execute_tools)
           THEN /\ dispatches' = Append(dispatches, Dispatch(currentAgent, collected.tool_calls, result.invoked))
                /\ IF result.escaped # Null
                   THEN /\ events' = addEvents(enabled, evs, result.added)
                        /\ steps' = Append(steps, [type |-> "error",
                                                   error |-> result.escaped])
                        /\ pc' = "s_break"
                        /\ UNCHANGED <<currentMessages, currentAgent, currentContextVars,
                                       toolCallResult, yieldIndex>>
                   ELSE /\ currentMessages' = msgs
                        /\ toolCallResult' = result
                        /\ IF result.messages # <<>>
                           THEN /\ events' = addEvents(enabled, evs, result.added)
                                /\ steps' = Append(steps, [type |-> "tool_response",
                                                           message |-> result.messages[1]])
                                /\ yieldIndex' = 1
                                /\ pc' = "s_yield"
                                /\ UNCHANGED <<currentAgent, currentContextVars>>
                           ELSE /\ yieldIndex' = 0
                                /\ AfterTools(addEvents(enabled, evs, result.added),
                                              msgs, result)
           ELSE /\ Complete(evs, currentMessages, currentAgent, currentContextVars)
                /\ UNCHANGED <<currentMessages, currentAgent, currentContextVars,
                               dispatches, toolCallResult, yieldIndex>>
    /\ UNCHANGED <<stream, max_turns, execute_tools, agent, messages, context_variables,
                   turns, request, backendCalls, nextId, chunks, collected,
                   enabled, error,
                   responses, eventsId, aux>>

\* lines 440-445: the next tool_response step
StreamToolResponse ==
    /\ pc = "s_yield"
    /\ yieldIndex < Len(toolCallResult.messages)
    /\ steps' = Append(steps, [type |-> "tool_response",
                               message |-> toolCallResult.messages[yieldIndex + 1]])
    /\ yieldIndex' = yieldIndex + 1
    /\ UNCHANGED <<pc, stream, max_turns, execute_tools, agent, messages,
                   context_variables, currentAgent, currentMessages, currentContextVars,
                   turns, events, request, backendCalls, dispatches, nextId, chunks,
                   collected, toolCallResult, enabled, error,
                   responses, eventsId, aux>>

\* lines 447-479: after the last tool_response step
StreamAfterTools ==
    /\ pc = "s_yield"
    /\ yieldIndex = Len(toolCallResult.messages)
    /\ AfterTools(events, currentMessages, toolCallResult)
    /\ UNCHANGED <<stream, max_turns, execute_tools, agent, messages, context_variables,
                   currentMessages, turns, request, backendCalls, dispatches, nextId,
                   chunks, collected, toolCallResult, yieldIndex, enabled, error,
                   responses, eventsId, aux>>

\* lines 488-503: after the error step
StreamBreak ==
    /\ pc = "s_break"
    /\ Complete(events, currentMessages, currentAgent, currentContextVars)
    /\ UNCHANGED <<stream, max_turns, execute_tools, agent, messages, context_variables,
                   currentAgent, currentMessages, currentContextVars, turns,
                   request, backendCalls, dispatches, nextId, chunks, collected,
                   toolCallResult, yieldIndex, enabled, error,
                   responses, eventsId, aux>>

-----------------------------------------------------------------------------

Next ==
    \/ StartRun
    \/ LoopExit
    \/ InputRejected
    \/ ModelCall
    \/ ProviderError
    \/ ProviderRespond
    \/ StreamLoopExit
    \/ StreamInputRejected
    \/ StreamStart
    \/ StreamOpen
    \/ StreamChunk
    \/ StreamError
    \/ StreamEnd
    \/ StreamValidationFailed
    \/ StreamTools
    \/ StreamToolResponse
    \/ StreamAfterTools
    \/ StreamBreak

Spec == Init /\ [][Next]_vars

-----------------------------------------------------------------------------
(* Agent.validateInput and Agent.validateOutput called by themselves, on an *)
(* agent configured with the rules of probe.rules                            *)

\* largest number of rules an agent is configured with
MaxRules == 3

\* the rules a guardrail configuration is made of
Rules ==
    { Rule("no_profanity", "profanity"), Rule("min_length", "too short"),
      Rule("max_length", "too long"), Rule("strict", "strict") }

RECURSIVE RuleLists(_)
\* the rule lists of at most n rules
RuleLists(n) ==
    IF n = 0 THEN { <<>> }
    ELSE { <<>> } \cup { << r >> \o rest : r \in Rules, rest \in RuleLists(n - 1) }

\* the texts validated
Texts == { "", "hi", "damn", "bad damn" }

InitValidate ==
    /\ NoRun
    /\ events = <<>>
    /\ nextId = 0
    /\ earlier = <<>>
    /\ other = OtherOff
    /\ probe \in { [pc |-> "called", rules |-> r, text |-> t] :
                       r \in RuleLists(MaxRules), t \in Texts }

\* validateInput(text) / validateOutput(text) runs and returns
ApplyValidate ==
    /\ probe.pc = "called"
    /\ probe' = [pc |-> "returned", rules |-> probe.rules, text |-> probe.text,
                 result |-> Validate(probe.rules, probe.text)]
    /\ UNCHANGED <<pc, stream, max_turns, execute_tools, agent, messages,
                   context_variables, currentAgent, currentMessages, currentContextVars,
                   turns, events, request, backendCalls, dispatches, nextId, chunks,
                   collected, toolCallResult, yieldIndex, steps, enabled, error,
                   responses, eventsId, earlier, other>>

NextValidate == ApplyValidate

SpecValidate == InitValidate /\ [][NextValidate]_vars

-----------------------------------------------------------------------------
(* A run on an instance that has run before.  The earlier run has left its   *)
(* events in the tracer; its conversation state is gone with its frame.      *)

\* how an earlier run of agent A ended and what it left in this.tracer.events:
\* aborted by the input rules, aborted by a provider failure, or returned
EarlierRuns ==
    { [status |-> "thrown",
       events |-> Recorded(DateEarlier,
                     << AgentStart("A", EmptyMap) >>
                     \o ValidateMessages("A", << UserMessage("damn") >>, 1).added)],
      [status |-> "thrown",
       events |-> Recorded(DateEarlier,
                     << AgentStart("A", EmptyMap) >>
                     \o ValidateMessages("A", << UserMessage("hello") >>, 1).added
                     \o << ModelCallEvent("A", << UserMessage("hello") >>) >>)],
      [status |-> "returned",
       events |-> Recorded(DateEarlier,
                     << AgentStart("A", EmptyMap) >>
                     \o ValidateMessages("A", << UserMessage("hello") >>, 1).added
                     \o << ModelCallEvent("A", << UserMessage("hello") >>) >>
                     \o OutputCheck("A", "Hello")
                     \o << AgentEnd("A") >>)] }

\* what the caller of the earlier run holds: the array run returned as
\* `trace`, or nothing when the run threw
Held(run) ==
    IF run.status = "returned"
    THEN [status |-> "returned", id |-> getEvents(run.events).id,
          events |-> getEvents(run.events).events]
    ELSE [status |-> "thrown", id |-> 0, events |-> <<>>]

InitSeq ==
    /\ NoRun
    /\ nextId = 0
    /\ other = OtherOff
    /\ probe = NoProbe
    /\ \E run \in EarlierRuns :
          /\ events = run.events
          /\ earlier = << Held(run) >>

SpecSeq == InitSeq /\ [][Next]_vars

-----------------------------------------------------------------------------
(* Two runs on one instance.  Beside the run of the variables above, the     *)
(* caller has a second conversation under way: swarm.run(D, [other]), a      *)
(* batched run of agent D (no actions, no rules) with the default max_turns  *)
(* and execute_tools, whose provider answers with a text.  Both are async:   *)
(* the two runs interleave at their awaits.                                  *)

\* the default of max_turns
Infinity == 1000

OtherMessages == << UserMessage("other") >>

\* what the provider answers the second conversation with
OtherAnswers == { Answer("Hi", <<>>) }

\* the second run has been called and has not run yet
OtherCalled ==
    [pc |-> "idle", conv |-> Conversation("running", "D", OtherMessages, EmptyMap, 0),
     responses |-> <<>>, trace |-> <<>>]

\* the start of a second run that keeps its conversation in the instance,
\* where the first run keeps its own
OtherStartOnInstance ==
    /\ other.pc = "idle"
    /\ events' = addEvents(enabled, clear(events), << AgentStart("D", EmptyMap) >>)
    /\ eventsId' = eventsId + 1
    /\ other' = [other EXCEPT !.pc = "loop"]
    /\ currentMessages' = other.conv.messages
    /\ UNCHANGED <<pc, stream, max_turns, execute_tools, agent, messages,
                   context_variables, currentAgent, currentContextVars,
                   turns, request, backendCalls, dispatches, nextId, chunks,
                   collected, toolCallResult, yieldIndex, steps, enabled, error,
                   responses, earlier, probe>>

\* a start of the second run with a tracer of its own
OtherStartOwnTracer ==
    /\ other.pc = "idle"
    /\ other' = [other EXCEPT !.pc = "loop"]
    /\ UNCHANGED <<pc, stream, max_turns, execute_tools, agent, messages,
                   context_variables, currentAgent, currentMessages, currentContextVars,
                   turns, events, request, backendCalls, dispatches, nextId, chunks,
                   collected, toolCallResult, yieldIndex, steps, enabled, error,
                   responses, eventsId, earlier, probe>>

\* lines 64-87 of the second run
OtherStart ==
    /\ other.pc = "idle"
    /\ events' = addEvents(enabled, clear(events), << AgentStart("D", EmptyMap) >>)
    /\ eventsId' = eventsId + 1
    /\ other' = [other EXCEPT !.pc = "loop"]
    /\ UNCHANGED <<pc, stream, max_turns, execute_tools, agent, messages,
                   context_variables, currentAgent, currentMessages, currentContextVars,
                   turns, request, backendCalls, dispatches, nextId, chunks,
                   collected, toolCallResult, yieldIndex, steps, enabled, error,
                   responses, earlier, probe>>

\* lines 95-135 of the second run: its messages pass, its request goes out
OtherModelCall ==
    /\ other.pc = "loop"
    /\ other.conv.turns < Infinity
    /\ LET v == ValidateMessages(other.conv.agent, other.conv.messages, 1)
       IN  /\ v.errors = <<>>
           /\ events' = addEvents(enabled, events,
                            v.added \o << ModelCallEvent(other.conv.agent,
                                                         other.conv.messages) >>)
    /\ other' = [other EXCEPT !.pc = "model"]
    /\ UNCHANGED <<pc, stream, max_turns, execute_tools, agent, messages,
                   context_variables, currentAgent, currentMessages, currentContextVars,
                   turns, request, backendCalls, dispatches, nextId, chunks,
                   collected, toolCallResult, yieldIndex, steps, enabled, error,
                   responses, eventsId, earlier, probe>>

\* lines 137-222 of the second run: the provider's answer, the end of the
\* loop, and the result returned
OtherRespond ==
    /\ other.pc = "model"
    /\ \E answer \in OtherAnswers :
         LET trace == addEvents(enabled, events,
                          OutputCheck(other.conv.agent, answer.content)
                          \o << AgentEnd(other.conv.agent) >>)
         IN  /\ events' = trace
             /\ other' = [pc |-> "done",
                          conv |-> RunLoop(other.conv, << answer >>, Infinity, TRUE),
                          responses |-> Append(other.responses, answer),
                          trace |-> getEvents(trace).events]
    /\ UNCHANGED <<pc, stream, max_turns, execute_tools, agent, messages,
                   context_variables, currentAgent, currentMessages, currentContextVars,
                   turns, request, backendCalls, dispatches, nextId, chunks,
                   collected, toolCallResult, yieldIndex, steps, enabled, error,
                   responses, eventsId, earlier, probe>>

\* the provider has requested all but two of the tool calls it requests
InitConc ==
    /\ NoRun
    /\ events = <<>>
    /\ nextId = MaxToolCalls - 2
    /\ earlier = <<>>
    /\ other = OtherCalled
    /\ probe = NoProbe

\* the first run of the two: a call with a turn limit below MaxTurns and no
\* context variables
StartRunBounded ==
    StartRun /\ max_turns' < MaxTurns /\ context_variables' = EmptyMap

NextConc ==
    \/ StartRunBounded
    \/ LoopExit
    \/ InputRejected
    \/ ModelCall
    \/ ProviderError
    \/ ProviderRespond
    \/ StreamLoopExit
    \/ StreamInputRejected
    \/ StreamStart
    \/ StreamOpen
    \/ StreamChunk
    \/ StreamError
    \/ StreamEnd
    \/ StreamValidationFailed
    \/ StreamTools
    \/ StreamToolResponse
    \/ StreamAfterTools
    \/ StreamBreak
    \/ OtherStart
    \/ OtherModelCall
    \/ OtherRespond

SpecConc == InitConc /\ [][NextConc]_vars

-----------------------------------------------------------------------------
(* The stream of one backend call of Swarm.runWithStream, for any fragments   *)
(* a provider may send: the loop of lines 323-383 and the push of 385-395     *)

\* largest number of chunks of a stream
MaxFragments == 3

\* the tool-call fragments a provider may send in a chunk: for slot 0 or
\* slot 2, with or without an id, a type and a name, with or without a piece
\* of the arguments
FragmentPool ==
    { Delta(i, a[1], a[2], a[3], args) :
          i \in {0, 2},
          a \in { <<Undefined, Undefined, Undefined>>,
                  <<"call_1", "function", "setA1">>,
                  <<"call_2", Undefined, "toB">> },
          args \in {Undefined, "{", "}"} }

RECURSIVE Streams(_)
\* the streams of at most n chunks, each chunk with one fragment
Streams(n) ==
    IF n = 0 THEN { <<>> }
    ELSE { <<>> } \cup
         { << Chunk(Undefined, << d >>) >> \o rest :
               d \in FragmentPool, rest \in Streams(n - 1) }

\* the provider has opened the stream of the first backend call of
\* runWithStream(A, [user hello]); probe holds what the provider streams
InitFragments ==
    LET msgs == << UserMessage("hello") >>
    IN  /\ pc = "s_chunks"
        /\ enabled = TRUE
        /\ stream = TRUE /\ max_turns = 1 /\ execute_tools = TRUE
        /\ agent = "A" /\ messages = msgs /\ context_variables = EmptyMap
        /\ currentAgent = "A" /\ currentMessages = msgs
        /\ currentContextVars = EmptyMap
        /\ turns = 1
        /\ events = addEvents(TRUE, <<>>,
                         << AgentStart("A", EmptyMap) >>
                         \o ValidateMessages("A", msgs, 1).added
                         \o << ModelCallEvent("A", msgs) >>)
        /\ request = getChatCompletion("A", msgs, EmptyMap, TRUE)
        /\ backendCalls = 1
        /\ dispatches = <<>>
        /\ nextId = 0
        /\ chunks \in Streams(MaxFragments)
        /\ collected = NoCollected
        /\ toolCallResult = NoToolResult
        /\ yieldIndex = 0
        /\ steps = << [type |-> "stream_start", agent |-> "A"] >>
        /\ error = Null
        /\ responses = <<>>
        /\ eventsId = 2
        /\ earlier = <<>>
        /\ other = OtherOff
        /\ probe = [pc |-> "stream", chunks |-> chunks]

NextFragments == StreamChunk \/ StreamEnd

SpecFragments == InitFragments /\ [][NextFragments]_vars

\* the same streams, with the rest of the iteration: the collected tool calls
\* are dispatched, the tool_response steps yielded, and the run, whose
\* max_turns is 1, completes
NextSlots ==
    \/ StreamChunk
    \/ StreamEnd
    \/ StreamTools
    \/ StreamToolResponse
    \/ StreamAfterTools
    \/ StreamLoopExit

SpecSlots == InitFragments /\ [][NextSlots]_vars

-----------------------------------------------------------------------------
(* Runs of agent H, whose actions are the hand-off functions of the Handoff  *)
(* class                                                                     *)

\* what a caller of H passes: a message that passes or fails the input rules
\* and a context without a, with a = 0 or with a = 1
HandoffInputs ==
    { [agent |-> "H", messages |-> << UserMessage(t) >>, context_variables |-> c] :
          t \in {"hello", "damn"}, c \in {EmptyMap, [a |-> "0"], [a |-> "1"]} }

StartRunHandoff == StartRunFrom(HandoffInputs)

NextHandoff ==
    \/ StartRunHandoff
    \/ LoopExit
    \/ InputRejected
    \/ ModelCall
    \/ ProviderError
    \/ ProviderRespond
    \/ StreamLoopExit
    \/ StreamInputRejected
    \/ StreamStart
    \/ StreamOpen
    \/ StreamChunk
    \/ StreamError
    \/ StreamEnd
    \/ StreamValidationFailed
    \/ StreamTools
    \/ StreamToolResponse
    \/ StreamAfterTools
    \/ StreamBreak

SpecHandoff == Init /\ [][NextHandoff]_vars

-----------------------------------------------------------------------------
(* Runs on an instance made with new Swarm({enableTracing}), tracing enabled *)
(* or disabled                                                               *)

InitTracing ==
    /\ \E enableTracing \in BOOLEAN : Constructed(enableTracing)
    /\ events = <<>>
    /\ nextId = 0
    /\ earlier = <<>>
    /\ other = OtherOff
    /\ probe = NoProbe

SpecTracing == InitTracing /\ [][Next]_vars

-----------------------------------------------------------------------------
(* Notions the properties below are stated in *)

RECURSIVE AllInvoked(_)
\* the invocations of the callables, over all dispatched batches, in order
AllInvoked(ds) ==
    IF ds = <<>> THEN <<>> ELSE ds[1].invoked \o AllInvoked(Tail(ds))

Invocations == AllInvoked(dispatches)

\* the tool-role messages of the history that answer tool call `id`
ToolMessagesFor(id) ==
    {i \in DOMAIN currentMessages :
        currentMessages[i].role = "tool" /\ currentMessages[i].tool_call_id = id}

\* tool call `id` was answered by exactly one tool-role message, and its text
\* names the action and holds `indication`
AnsweredOnce(id, name, indication) ==
    /\ Cardinality(ToolMessagesFor(id)) = 1
    /\ \A i \in ToolMessagesFor(id) :
          /\ Contains(currentMessages[i].content, name)
          /\ Contains(currentMessages[i].content, indication)

\* every function call of the batch was processed: it was answered by a tool
\* message or its callable was invoked
BatchProcessed(d) ==
    \A j \in DOMAIN d.toolCalls :
        d.toolCalls[j].type = "function" =>
            \/ ToolMessagesFor(d.toolCalls[j].id) # {}
            \/ \E k \in DOMAIN d.invoked : d.invoked[k].id = d.toolCalls[j].id

NumberOf(type) == Count(events, LAMBDA e : e.type = type)

\* the run was aborted by the input rules
InputAbort == pc = "thrown" /\ Contains(error, "input validation failed")

\* a user message of the history fails the input rules of the active agent
SomeUserMessageFails ==
    \E i \in DOMAIN currentMessages :
        /\ currentMessages[i].role = "user"
        /\ Truthy(currentMessages[i].content)
        /\ ~validateInput(currentAgent, currentMessages[i].content).valid

\* the run has ended and returned (batched) or yielded its complete step
Returned == pc = "done"

\* the errors a run may end with that no action callable causes
ForeignErrors == {Null, "provider error", "Error: provider error"}

\* no error of an action callable left the dispatch: the run did not throw it
\* and the stream yielded no error step for it
NoActionErrorEscaped ==
    /\ pc = "thrown" => (InputAbort \/ error \in ForeignErrors)
    /\ \A i \in DOMAIN steps :
          steps[i].type = "error" => steps[i].error \in ForeignErrors

-----------------------------------------------------------------------------
(* C1 *)

C1_AbortState ==
    InputAbort =>
        /\ events[Len(events)].type = "guardrail_check"
        /\ events[Len(events)].data.success = FALSE
        /\ NumberOf("model_call") = NumberOf("handoff")
        /\ backendCalls = NumberOf("model_call")

C1_AbortStep ==
    (pc \in {"loop", "s_loop"} /\ turns < max_turns /\ SomeUserMessageFails)
        => (pc' = "thrown" /\ backendCalls' = backendCalls
            /\ NumberOf("model_call")' = NumberOf("model_call"))

-----------------------------------------------------------------------------
(* C2 *)

\* C2: with execute_tools = false no callable is invoked, the history gains
\* no tool-role message, at most one backend call is made, and a run that
\* returns after entering the loop has made exactly one.
C2_NoToolsWhenDisabled ==
    (pc # "idle" /\ ~execute_tools) =>
        /\ dispatches = <<>>
        /\ \A i \in DOMAIN currentMessages : currentMessages[i].role # "tool"
        /\ backendCalls <= 1
        /\ (Returned /\ max_turns > 0) => backendCalls = 1

\* a run with execute_tools = false that returned although the provider's
\* answer requested a tool call
C2_Witness ==
    /\ Returned /\ ~execute_tools /\ backendCalls = 1
    /\ currentMessages[Len(currentMessages)].role = "assistant"
    /\ currentMessages[Len(currentMessages)].tool_calls # <<>>

-----------------------------------------------------------------------------
(* C3 *)

\* the batch has been dispatched and its result merged
Merged(d) ==
    /\ pc \in {"loop", "s_loop", "done"}
    /\ d = dispatches[Len(dispatches)]

\* the context that overlaying the deltas of `invoked`, in order, on `pre`
\* gives: a key has the value of the last delta that holds it
Overlay(pre, invoked) ==
    LET writers(k) == {j \in DOMAIN invoked : k \in DOMAIN invoked[j].delta}
        last(k) == CHOOSE j \in writers(k) : \A j2 \in writers(k) : j2 <= j
        keys == DOMAIN pre \cup UNION {DOMAIN invoked[j].delta : j \in DOMAIN invoked}
    IN  [k \in keys |-> IF writers(k) # {} THEN invoked[last(k)].delta[k] ELSE pre[k]]

\* C3: after a batch, the context variables are the context the batch was
\* dispatched with, overlaid with the deltas of its calls in input order.
C3_DeltasInInputOrder ==
    (dispatches # <<>> /\ Merged(dispatches[Len(dispatches)])) =>
        LET d == dispatches[Len(dispatches)]
        IN  d.invoked # <<>> =>
                currentContextVars = Overlay(d.invoked[1].contextVariables, d.invoked)

\* Scenario C: one batch whose first call sets a to 1 and second sets a to 2
C3_Witness ==
    /\ Returned /\ dispatches # <<>>
    /\ LET d == dispatches[Len(dispatches)]
       IN  /\ Len(d.invoked) = 2
           /\ d.invoked[1].delta = [a |-> "1"]
           /\ d.invoked[2].delta = [a |-> "2"]
    /\ currentContextVars = [a |-> "2"]

-----------------------------------------------------------------------------
(* C4 *)

\* C4: the history only grows by appending, and the caller's messages stay
\* its prefix.
C4_AppendOnly ==
    /\ [][IsPrefix(currentMessages, currentMessages')]_vars
    /\ [](pc # "idle" => IsPrefix(messages, currentMessages))

\* a run that was handed off and has appended more than two messages
C4_Witness ==
    /\ Returned /\ currentAgent # agent
    /\ Len(currentMessages) > Len(messages) + 2

-----------------------------------------------------------------------------
(* C5 *)

\* C5: a callable that throws does not make the run throw; its call is
\* answered by exactly one tool-role message that names the action and
\* reports the error, and every call of its batch is processed.
C5_ThrowIsIsolated ==
    \A i \in DOMAIN dispatches :
        \A k \in DOMAIN dispatches[i].invoked :
            dispatches[i].invoked[k].outcome = "throw" =>
                /\ NoActionErrorEscaped
                /\ AnsweredOnce(dispatches[i].invoked[k].id,
                                dispatches[i].invoked[k].name, "error")
                /\ BatchProcessed(dispatches[i])

\* a batch whose first callable threw and whose second was invoked, in a run
\* that returned
C5_Witness ==
    /\ Returned
    /\ \E i \in DOMAIN dispatches :
          /\ Len(dispatches[i].invoked) = 2
          /\ dispatches[i].invoked[1].outcome = "throw"
          /\ dispatches[i].invoked[2].outcome = "Result"

-----------------------------------------------------------------------------
(* C6 *)

\* the name is the func.name of a callable in the agent's action list
IsCallableOf(ag, name) ==
    \E i \in DOMAIN Functions(ag) :
        Functions(ag)[i].callable /\ Functions(ag)[i].name = name

\* nothing was invoked for tool call `id` of the batch
NotInvoked(d, id) == \A k \in DOMAIN d.invoked : d.invoked[k].id # id

\* C6: a tool call that names no callable of the active executor is answered
\* by exactly one tool-role message holding the name and a not-found
\* indication; nothing is invoked for it, nothing is thrown, and the rest of
\* the batch is processed.
C6_UnknownActionNotFound ==
    \A i \in DOMAIN dispatches :
        \A j \in DOMAIN dispatches[i].toolCalls :
            LET d == dispatches[i]
                c == d.toolCalls[j]
            IN  (c.type = "function" /\ ~IsCallableOf(d.agent, c.name)) =>
                    /\ AnsweredOnce(c.id, c.name, "not found")
                    /\ NotInvoked(d, c.id)
                    /\ NoActionErrorEscaped
                    /\ BatchProcessed(d)

-----------------------------------------------------------------------------
(* C7 *)

\* C7: when the value a callable returned cannot be converted to text, no
\* tool-role message is made of the call and the batched run throws.
C7_SerializationFailureIsFatal ==
    \A k \in DOMAIN Invocations :
        (Invocations[k].outcome = "other" /\ ~CanString(Invocations[k].value)) =>
            /\ ToolMessagesFor(Invocations[k].id) = {}
            /\ ~stream => pc = "thrown"

-----------------------------------------------------------------------------
(* C8 *)

\* C8, Scenario A: a batched run of an executor without actions on one user
\* message, answered "Hello", returns [system, user, assistant("Hello")]
\* after one backend call.
C8_ScenarioA ==
    ( /\ Returned /\ ~stream
      /\ Functions(agent) = <<>>
      /\ Len(messages) = 1 /\ messages[1].role = "user"
      /\ currentMessages[Len(currentMessages)].role = "assistant"
      /\ currentMessages[Len(currentMessages)].content = "Hello"
      /\ currentMessages[Len(currentMessages)].tool_calls = <<>> )
    => /\ backendCalls = 1
       /\ Len(currentMessages) = 3
       /\ currentMessages[1].role = "system"
       /\ currentMessages[1].content = getInstructions(agent, context_variables)
       /\ currentMessages[2] = messages[1]

-----------------------------------------------------------------------------
(* C9 *)

\* the invocations that returned a re-target
Retargets == {k \in DOMAIN Invocations : Invocations[k].agent # Null}

\* the re-target of the last hand-off of the run, or the initial executor
LastRetarget ==
    IF Retargets = {} THEN agent
    ELSE Invocations[CHOOSE k \in Retargets : \A k2 \in Retargets : k2 <= k].agent

\* no invocation after the k-th re-targets or sets a key of the k-th's delta
NotOverridden(k) ==
    \A k2 \in DOMAIN Invocations :
        k2 > k => /\ Invocations[k2].agent = Null
                  /\ DOMAIN Invocations[k2].delta \cap DOMAIN Invocations[k].delta = {}

\* C9: a run that returns has as its executor the re-target of its last
\* hand-off (the initial executor if there was none); when a call returned a
\* re-target X with a delta D and no later call re-targets or sets a key of D,
\* the final executor is X and the final context holds D; the complete step of
\* a streaming run carries these.
C9_FinalExecutorAndContext ==
    Returned =>
        /\ currentAgent = LastRetarget
        /\ \A k \in Retargets :
              NotOverridden(k) =>
                  /\ currentAgent = Invocations[k].agent
                  /\ \A key \in DOMAIN Invocations[k].delta :
                        /\ key \in DOMAIN currentContextVars
                        /\ currentContextVars[key] = Invocations[k].delta[key]
        /\ stream =>
              /\ steps[Len(steps)].type = "complete"
              /\ steps[Len(steps)].agent = currentAgent
              /\ steps[Len(steps)].context_variables = currentContextVars

\* Scenario B: toB returned {agent: B, context_variables: {flag: true}}
C9_Witness ==
    /\ Returned /\ agent = "A" /\ currentAgent = "B"
    /\ \E k \in Retargets :
          /\ Invocations[k].impl = "A.toB"
          /\ Invocations[k].delta = [flag |-> "true"]
          /\ NotOverridden(k)
    /\ "flag" \in DOMAIN currentContextVars
    /\ currentContextVars["flag"] = "true"

-----------------------------------------------------------------------------
(* C10 *)

\* C10: a call of a known action with the malformed arguments "{" invokes
\* nothing; it is answered by exactly one tool-role error message, the other
\* calls of the batch are processed, and the run does not throw for it.
C10_MalformedArguments ==
    \A i \in DOMAIN dispatches :
        \A j \in DOMAIN dispatches[i].toolCalls :
            LET d == dispatches[i]
                c == d.toolCalls[j]
            IN  (c.type = "function" /\ IsCallableOf(d.agent, c.name)
                 /\ c.arguments = "{") =>
                    /\ NotInvoked(d, c.id)
                    /\ AnsweredOnce(c.id, c.name, "error")
                    /\ BatchProcessed(d)
                    /\ NoActionErrorEscaped

\* a batch whose first call has malformed arguments and whose second call
\* was invoked, in a run that returned
C10_Witness ==
    /\ Returned
    /\ \E i \in DOMAIN dispatches :
          /\ Len(dispatches[i].toolCalls) = 2
          /\ dispatches[i].toolCalls[1].arguments = "{"
          /\ IsCallableOf(dispatches[i].agent, dispatches[i].toolCalls[1].name)
          /\ Len(dispatches[i].invoked) = 1
          /\ dispatches[i].invoked[1].id = dispatches[i].toolCalls[2].id

-----------------------------------------------------------------------------
(* C11 *)

\* the text fails the output rules of agent `ag`
FailsOutput(ag, content) == Truthy(content) /\ ~validateOutput(ag, content).valid

\* the event is the record of a failed output validation
IsOutputFailure(e) ==
    /\ e.type = "guardrail_check"
    /\ e.data.type = "output_validation"
    /\ e.data.success = FALSE

\* the batched step that takes the provider's answer: only a provider failure
\* throws; a failing answer is appended, recorded and its tool calls dispatched
C11_BatchedStep ==
    pc = "model" =>
        /\ pc' = "thrown" => error' = "provider error"
        /\ pc' # "thrown" =>
              LET m == currentMessages'[Len(currentMessages) + 1]
              IN  FailsOutput(currentAgent, m.content) =>
                    /\ m.role = "assistant"
                    /\ pc' \in {"loop", "done"}
                    /\ \E i \in DOMAIN events' :
                          i > Len(events) /\ IsOutputFailure(events'[i])
                    /\ (m.tool_calls # <<>> /\ execute_tools) =>
                          /\ Len(dispatches') = Len(dispatches) + 1
                          /\ dispatches'[Len(dispatches')].toolCalls = m.tool_calls

\* the streaming steps after the stream has ended with a failing text
C11_StreamStep ==
    /\ (pc = "s_validate" /\ FailsOutput(currentAgent, collected.content)) =>
          /\ pc' = "s_tools"
          /\ currentMessages[Len(currentMessages)].role = "assistant"
          /\ currentMessages[Len(currentMessages)].content = collected.content
          /\ currentMessages' = currentMessages
          /\ Len(events') = Len(events) + 1
          /\ IsOutputFailure(events'[Len(events')])
          /\ steps'[Len(steps')].type = "validation_failed"
    /\ pc = "s_tools" =>
          /\ pc' \in {"s_yield", "s_loop", "done"}
          /\ (collected.tool_calls # <<>> /\ execute_tools) =>
                /\ Len(dispatches') = Len(dispatches) + 1
                /\ dispatches'[Len(dispatches')].toolCalls = collected.tool_calls

\* C11: a failed output validation aborts neither variant: the failing
\* assistant message is in the history, a guardrail_check event with
\* success = false is recorded for it, and its tool calls are dispatched.
C11_OutputFailureDoesNotAbort ==
    /\ [][C11_BatchedStep]_vars
    /\ [][C11_StreamStep]_vars
    /\ [](pc = "thrown" => (InputAbort \/ error = "provider error"))

\* a streaming run that returned after a failing text whose tool call was
\* dispatched
C11_Witness ==
    /\ Returned /\ stream
    /\ \E i \in DOMAIN steps : steps[i].type = "validation_failed"
    /\ \E i \in DOMAIN events : IsOutputFailure(events[i])
    /\ \E i \in DOMAIN dispatches, j \in DOMAIN currentMessages :
          /\ currentMessages[j].role = "assistant"
          /\ FailsOutput(dispatches[i].agent, currentMessages[j].content)
          /\ dispatches[i].toolCalls = currentMessages[j].tool_calls
          /\ dispatches[i].invoked # <<>>

-----------------------------------------------------------------------------
(* C12 *)

\* the error steps the generator has yielded
ErrorSteps == {i \in DOMAIN steps : steps[i].type = "error"}

\* a step that leaves the reading of the provider's stream other than by a
\* chunk or the end of the stream yields the error step
C12_FailureStep ==
    (pc = "s_chunks" /\ pc' \notin {"s_chunks", "s_validate"}) =>
        /\ pc' = "s_break"
        /\ steps' = Append(steps, [type |-> "error", error |-> "Error: provider error"])

\* once the error step is out, the run calls no backend and dispatches nothing
C12_AfterErrorStep ==
    (ErrorSteps # {} /\ pc # "done") =>
        /\ backendCalls' = backendCalls
        /\ dispatches' = dispatches
        /\ pc' \in {"s_break", "done"}

\* C12: a provider failure in the streaming variant is never thrown: it is
\* yielded as one error step, after which the run makes no backend call and
\* dispatches no action; in the batched variant it leaves run as a throw.
C12_ProviderFailure ==
    /\ [][C12_FailureStep]_vars
    /\ [][C12_AfterErrorStep]_vars
    /\ []((stream /\ pc = "thrown") => InputAbort)
    /\ [](Cardinality(ErrorSteps) <= 1)
    /\ [](error = "provider error" => (~stream /\ pc = "thrown" /\ steps = <<>>))
    /\ [][(pc = "model" /\ currentMessages' = currentMessages)
             => (pc' = "thrown" /\ error' = "provider error")]_vars

\* a streaming run that completed after its provider failed in the middle of
\* the stream of its second backend call
C12_Witness ==
    /\ Returned /\ stream /\ backendCalls = 2
    /\ \E i \in ErrorSteps :
          /\ i > 1 /\ steps[i - 1].type \in {"content", "tool_call"}
          /\ i + 1 = Len(steps) /\ steps[i + 1].type = "complete"

-----------------------------------------------------------------------------
(* C14 *)

\* the function_call and function_return events of the trace, in order
FunctionEvents ==
    SelectSeq(events, LAMBDA e : e.type \in {"function_call", "function_return"})

RECURSIVE AllToolCalls(_)
\* the tool calls of the dispatched batches, in order
AllToolCalls(ds) ==
    IF ds = <<>> THEN <<>> ELSE ds[1].toolCalls \o AllToolCalls(Tail(ds))

RECURSIVE RequestedFrom(_)
\* the tool calls the assistant messages of `msgs` request, in order
RequestedFrom(msgs) ==
    IF msgs = <<>> THEN <<>>
    ELSE (IF msgs[1].role = "assistant" THEN msgs[1].tool_calls ELSE <<>>)
         \o RequestedFrom(Tail(msgs))

\* the trace holds, for the calls of `calls` in order, a function_call event
\* followed by a function_return event that carries a result or an error
TracedInOrder(calls) ==
    /\ Len(FunctionEvents) = 2 * Len(calls)
    /\ \A k \in DOMAIN calls :
          LET call == FunctionEvents[2 * k - 1]
              return == FunctionEvents[2 * k]
          IN  /\ call.type = "function_call"
              /\ call.data.name = calls[k].name
              /\ call.data.arguments = calls[k].arguments
              /\ return.type = "function_return"
              /\ return.data.name = calls[k].name
              /\ DOMAIN return.data \in {{"name", "result"}, {"name", "error"}}

-----------------------------------------------------------------------------
(* C17 *)

\* the generator is suspended at a yield (or has yielded its last step)
Suspended ==
    /\ stream /\ steps # <<>>
    /\ pc \in {"s_open", "s_chunks", "s_validate", "s_tools", "s_yield", "s_loop",
               "s_break", "done"}

\* the tool_response step of tool call `id` has been yielded
OutcomeEmitted(id) ==
    \E i \in DOMAIN steps :
        steps[i].type = "tool_response" /\ steps[i].message.tool_call_id = id

\* C17: at every suspension point of the streaming variant, every callable
\* invoked so far has had its tool-outcome step yielded.
C17_NoEffectBeyondEmitted ==
    Suspended => \A k \in DOMAIN Invocations : OutcomeEmitted(Invocations[k].id)

-----------------------------------------------------------------------------
(* C20 *)

\* the rules of the list that the text does not pass, in rule order
FailingRules(rules, text) == SelectSeq(rules, LAMBDA r : Validator(r, text) # "true")

\* C20: validateInput / validateOutput run every rule, in order: errors has
\* one entry per failing rule, in rule order (the rule's errorMessage, or for
\* a rule that throws a text naming the rule); valid is true exactly when
\* errors is empty; no rules give {valid: true, errors: []}.
C20_EveryRuleRuns ==
    probe.pc = "returned" =>
        LET failing == FailingRules(probe.rules, probe.text)
            errors == probe.result.errors
        IN  /\ Len(errors) = Len(failing)
            /\ \A i \in DOMAIN failing :
                  IF Validator(failing[i], probe.text) = "false"
                  THEN errors[i] = failing[i].errorMessage
                  ELSE /\ Contains(errors[i], failing[i].name)
                       /\ Contains(errors[i], "Validation error")
            /\ probe.result.valid = (errors = <<>>)
            /\ probe.rules = <<>> => probe.result = [valid |-> TRUE, errors |-> <<>>]

\* three rules on a text that fails the first and the third and makes the
\* second throw
C20_Witness ==
    /\ probe.pc = "returned"
    /\ probe.rules = << Rule("no_profanity", "profanity"), Rule("strict", "strict"),
                        Rule("max_length", "too long") >>
    /\ probe.text = "bad damn"
    /\ Len(probe.result.errors) = 3
    /\ probe.result.errors[1] = "profanity"
    /\ probe.result.errors[3] = "too long"
    /\ ~probe.result.valid

-----------------------------------------------------------------------------
(* C18 *)

\* the roles of the messages, in order
Roles(msgs) == [i \in DOMAIN msgs |-> msgs[i].role]

\* the tool-role messages, in order
ToolMessages(msgs) == SelectSeq(msgs, LAMBDA m : m.role = "tool")

\* what the batched variant gives for the inputs of the run under way and
\* the answers its provider has given so far
Batched ==
    RunBatched(agent, messages, context_variables, max_turns, execute_tools, responses)

\* the provider has failed no backend call of the run
NoFailure == \A i \in DOMAIN responses : ~responses[i].failed

\* C18: a streaming run whose chunks assembled to the assistant messages
\* m1, m2, ... ends as the batched run whose provider answers m1, m2, ...:
\* its complete step carries the same executor, the same context variables,
\* the same message roles and the same tool messages as the batched result,
\* and it throws where the batched run throws.  (The batched actions end as
\* the function RunBatched says.)
C18_StreamingRunsTheSameMachine ==
    /\ (~stream /\ pc \in {"done", "thrown"}) =>
          /\ Batched.status = IF pc = "done" THEN "returned" ELSE "thrown"
          /\ pc = "done" =>
                /\ Batched.agent = currentAgent
                /\ Batched.messages = currentMessages
                /\ Batched.context_variables = currentContextVars
    /\ (stream /\ NoFailure /\ pc = "thrown") => Batched.status = "thrown"
    /\ (stream /\ NoFailure /\ pc = "done") =>
          LET complete == steps[Len(steps)]
          IN  /\ complete.type = "complete"
              /\ Batched.status = "returned"
              /\ complete.agent = Batched.agent
              /\ complete.context_variables = Batched.context_variables
              /\ Roles(complete.messages) = Roles(Batched.messages)
              /\ ToolMessages(complete.messages) = ToolMessages(Batched.messages)

\* a streaming run of two backend calls that completed after a hand-off with
\* a context update and tool messages
C18_Witness ==
    /\ stream /\ NoFailure /\ pc = "done"
    /\ Len(responses) = 2
    /\ currentAgent # agent
    /\ currentContextVars # context_variables
    /\ Len(ToolMessages(steps[Len(steps)].messages)) = 2

-----------------------------------------------------------------------------
(* C13 *)

\* the array an earlier run returned, as it is now: the tracer's array if it
\* is that very object, else what it was when it was returned
ArrayNow(held) == IF held.id = eventsId THEN events ELSE held.events

\* every event of the trace was recorded by the run under way, whose first
\* event is its agent_start
OnlyThisRun(trace) ==
    /\ \A i \in DOMAIN trace : trace[i].timestamp = DateNow
    /\ trace # <<>>
    /\ trace[1].type = "agent_start"
    /\ trace[1].data.agent = agent
    /\ \A i \in DOMAIN trace : i > 1 => trace[i].type # "agent_start"

\* C13: a run on an instance that has run before, whether the earlier run
\* returned or was aborted, records and returns only its own events: the
\* tracer is cleared when the run starts; and the trace array the earlier run
\* returned is not changed by the run.
C13_TraceOfThisRunOnly ==
    /\ pc # "idle" => OnlyThisRun(events)
    /\ (pc = "done" /\ ~stream) => OnlyThisRun(getEvents(events).events)
    /\ (pc = "done" /\ stream) => OnlyThisRun(steps[Len(steps)].trace)
    /\ \A i \in DOMAIN earlier :
          earlier[i].status = "returned" => ArrayNow(earlier[i]) = earlier[i].events

\* a run with a hand-off that returned on an instance whose earlier run had
\* been aborted with events in the tracer
C13_Witness ==
    /\ pc = "done"
    /\ earlier # <<>> /\ earlier[1].status = "thrown"
    /\ currentAgent # agent
    /\ Len(events) > 6

\* a run that returned on an instance whose earlier run had returned a trace
C13_AfterReturnedRun ==
    /\ pc = "done" /\ stream
    /\ earlier # <<>> /\ earlier[1].status = "returned"
    /\ Len(earlier[1].events) = 5
    /\ Len(steps[Len(steps)].trace) > 5

-----------------------------------------------------------------------------
(* C15 *)

\* the conversation state of the first run
ConversationState == <<currentAgent, currentMessages, currentContextVars, turns>>

\* what the first run yields when it runs alone with the answers its provider
\* gave: the batched result, or the state the stream completes with (a
\* failed backend call ends the stream where the loop stands)
Alone ==
    RunBatched(agent, messages, context_variables, max_turns, execute_tools,
               IF stream THEN SelectSeq(responses, LAMBDA r : ~r.failed) ELSE responses)

\* what the second run yields when it runs alone
OtherAlone ==
    RunBatched("D", OtherMessages, EmptyMap, Infinity, TRUE, other.responses)

\* the two runs were under way at the same time: the second run returned a
\* trace with an event of a backend call of the first
Interleaved ==
    /\ other.pc = "done"
    /\ \E i \in DOMAIN other.trace :
          /\ other.trace[i].type = "model_call"
          /\ other.trace[i].data.messages[1].content # "other"

C15_FinalStates ==
    /\ (pc = "done" /\ ~stream) =>
          /\ Alone.status = "returned"
          /\ currentMessages = Alone.messages
          /\ currentAgent = Alone.agent
          /\ currentContextVars = Alone.context_variables
    /\ (pc = "done" /\ stream) =>
          /\ Alone.status = IF NoFailure THEN "returned" ELSE "waiting"
          /\ steps[Len(steps)].messages = Alone.messages
          /\ steps[Len(steps)].agent = Alone.agent
          /\ steps[Len(steps)].context_variables = Alone.context_variables
    /\ other.pc = "done" =>
          /\ OtherAlone.status = "returned"
          /\ other.conv = OtherAlone

\* C15: two runs on distinct conversations that interleave on one instance
\* do not touch each other's conversation state, and each ends with the
\* messages, the executor and the context variables it yields when it runs
\* alone with the same provider answers.
C15_NoInterference ==
    /\ [](C15_FinalStates)
    /\ [][other' # other => ConversationState' = ConversationState]_vars
    /\ [][ConversationState' # ConversationState => other' = other]_vars

\* both runs have returned after running at the same time, the first one
\* with a tool message in its history
C15_Witness ==
    /\ pc = "done" /\ Interleaved
    /\ dispatches # <<>>
    /\ \E i \in DOMAIN currentMessages : currentMessages[i].role = "tool"
    /\ Len(other.conv.messages) = 2

-----------------------------------------------------------------------------
(* C16 *)

\* every step of the second run works on the one events array of the
\* instance: its start empties the array whatever the first run has recorded,
\* its later steps append to what either run has recorded, and the trace it
\* returns is the content of that array
C16_OtherStep ==
    other' # other =>
        /\ other.pc = "idle" =>
              events' = Recorded(DateNow, << AgentStart("D", EmptyMap) >>)
        /\ other.pc # "idle" =>
              /\ IsPrefix(events, events')
              /\ Len(events') > Len(events)
        /\ other'.pc = "done" => other'.trace = events'

\* every step of the first run that records events appends them to the same
\* array, or empties it at its start whatever the second run has recorded
C16_FirstStep ==
    (other' = other /\ events' # events) =>
        IF pc = "idle"
        THEN events' = Recorded(DateNow, << AgentStart(agent', context_variables') >>)
        ELSE IsPrefix(events, events')

\* C16: the two runs share the one tracer of the instance: each run's clear
\* empties what the other has recorded, each run's events go to the same
\* array, and the trace a run returns is that array's content; so runs that
\* interleave return traces that lack own events or hold the other's.
C16_SharedRecorder ==
    /\ [][C16_OtherStep]_vars
    /\ [][C16_FirstStep]_vars

\* the second run has returned a trace that lacks its own agent_start event
\* (erased by the first run's clear) and holds events of the first run
C16_Witness ==
    /\ other.pc = "done"
    /\ \A i \in DOMAIN other.trace :
          ~(other.trace[i].type = "agent_start" /\ other.trace[i].data.agent = "D")
    /\ \E i \in DOMAIN other.trace :
          other.trace[i].type = "agent_start" /\ other.trace[i].data.agent # "D"
    /\ \E i \in DOMAIN other.trace : other.trace[i].type = "function_call"

-----------------------------------------------------------------------------
(* Trace export: Tracer.exportToJson, saveTraceToFile *)

\* keys whose value is a string (null and undefined included) and keys whose
\* value is an object of context variables
StringKeys ==
    {"agent", "instructions", "type", "model", "name", "arguments", "error",
     "from", "to", "value", "text", "role", "content"}
MapKeys == {"context_variables", "context_update"}

\* the value of key k is undefined
IsUndefined(k, v) ==
    CASE k \in StringKeys -> v = Undefined
      [] k \in MapKeys    -> v = UndefinedMap
      [] OTHER            -> FALSE

\* the order in which JSON.stringify visits the keys of the objects of a
\* trace (insertion order of the object literals)
KeyOrder ==
    << "timestamp", "type", "success", "errors", "model", "messages", "role",
       "content", "name", "arguments", "result", "error", "value", "text",
       "agent", "instructions", "from", "to", "context_variables",
       "context_update", "data" >>

\* JSON.stringify of an object whose values are strings, booleans, numbers,
\* arrays of strings or objects of context variables: the members
\* <<key, value>> in key order; a key whose value is undefined has no member
ObjectText(obj) ==
    LET present == SelectSeq(KeyOrder,
                       LAMBDA k : k \in DOMAIN obj /\ ~IsUndefined(k, obj[k]))
    IN  [i \in DOMAIN present |-> << present[i], obj[present[i]] >>]

\* JSON.stringify of the data of an event: the result of a function_return
\* and the messages of a model_call are objects themselves
DataText(data) ==
    LET present == SelectSeq(KeyOrder,
                       LAMBDA k : k \in DOMAIN data /\ ~IsUndefined(k, data[k]))
    IN  [i \in DOMAIN present |->
            LET k == present[i]
            IN  << k, CASE k = "result"   -> ObjectText(data[k])
                        [] k = "messages" -> [j \in DOMAIN data[k] |-> ObjectText(data[k][j])]
                        [] OTHER          -> data[k] >>]

\* JSON.stringify(events, null, 2): tracing/index.ts 44-46 and
\* utils/index.ts 21-25
JSONstringify(trace) ==
    [i \in DOMAIN trace |->
        << << "timestamp", trace[i].timestamp >>,
           << "type", trace[i].type >>,
           << "data", DataText(trace[i].data) >> >>]

\* Tracer.exportToJson
exportToJson(tracerEvents) == JSONstringify(tracerEvents)

\* JSON.parse of the text of an object: one key for every member
ParseObject(members) ==
    [k \in { members[i][1] : i \in DOMAIN members } |->
        LET i == CHOOSE i \in DOMAIN members : members[i][1] = k
        IN  members[i][2]]

\* JSON.parse of the text of the data of an event
ParseData(members) ==
    [k \in { members[i][1] : i \in DOMAIN members } |->
        LET i == CHOOSE i \in DOMAIN members : members[i][1] = k
        IN  CASE k = "result"   -> ParseObject(members[i][2])
              [] k = "messages" -> [j \in DOMAIN members[i][2] |->
                                       ParseObject(members[i][2][j])]
              [] OTHER          -> members[i][2]]

\* JSON.parse of an exported trace
JSONparse(text) ==
    [i \in DOMAIN text |->
        [timestamp |-> ParseObject(text[i]).timestamp,
         type      |-> ParseObject(text[i]).type,
         data      |-> ParseData(ParseObject(text[i]).data)]]

-----------------------------------------------------------------------------
(* C19 *)

\* C19: the trace exported to JSON and parsed again is a sequence with the
\* same length, the same order and the same timestamp, type and data
\* content as the events the tracer holds.
C19_RoundTrip ==
    JSONparse(exportToJson(events)) = events

\* what the export keeps: length, order, timestamp and type of every event,
\* and of the data every field whose value is not undefined
C19_KeptByExport ==
    LET parsed == JSONparse(exportToJson(events))
    IN  /\ Len(parsed) = Len(events)
        /\ \A i \in DOMAIN events :
              /\ parsed[i].timestamp = events[i].timestamp
              /\ parsed[i].type = events[i].type
              /\ DOMAIN parsed[i].data = DOMAIN events[i].data
              /\ \A k \in DOMAIN events[i].data :
                    IF k = "result"
                    THEN \A f \in DOMAIN events[i].data[k] :
                            IF IsUndefined(f, events[i].data[k][f])
                            THEN f \notin DOMAIN parsed[i].data[k]
                            ELSE parsed[i].data[k][f] = events[i].data[k][f]
                    ELSE parsed[i].data[k] = events[i].data[k]

\* a function_return event whose result holds an undefined field has been
\* recorded
C19_UndefinedRecorded ==
    \E i \in DOMAIN events :
        /\ events[i].type = "function_return"
        /\ "result" \in DOMAIN events[i].data
        /\ \E f \in DOMAIN events[i].data.result :
              IsUndefined(f, events[i].data.result[f])

-----------------------------------------------------------------------------
(* C21 *)

\* the step makes a backend call
BackendCall == backendCalls' = backendCalls + 1

\* the user messages of the history the request is made with
UserMessages == { i \in DOMAIN currentMessages : currentMessages[i].role = "user" }

\* C21: when a backend call is made, every user message of the history
\* passes the input rules of the executor the call is made for.
C21_EveryUserMessageValidated ==
    [][BackendCall =>
          /\ request'.messages = << request'.messages[1] >> \o currentMessages
          /\ \A i \in UserMessages :
                validateInput(currentAgent, currentMessages[i].content).valid]_vars

\* what the loop does ensure: every user message with a content that is not
\* empty passes the rules of the executor the call is made for, and one
\* passed guardrail_check per such message has been recorded since the
\* iteration began
C21_NonEmptyValidated ==
    [][BackendCall =>
          /\ request'.messages = << request'.messages[1] >> \o currentMessages
          /\ \A i \in UserMessages :
                Truthy(currentMessages[i].content) =>
                    validateInput(currentAgent, currentMessages[i].content).valid]_vars

\* a backend call is under way for an executor whose rules a user message
\* of the history fails
C21_UnvalidatedAtBackend ==
    /\ pc \in {"model", "s_chunks"}
    /\ \E i \in UserMessages :
          ~validateInput(currentAgent, currentMessages[i].content).valid

-----------------------------------------------------------------------------
(* C22 *)

\* the run with the scheduling of a caller that awaits the result (batched)
\* or drains the generator (streaming), and of a provider and of callables
\* that return or fail: a step that can be taken is taken
\* (the provider has requested all but two of the tool calls it requests)
InitLive ==
    /\ NoRun
    /\ events = <<>>
    /\ nextId = MaxToolCalls - 2
    /\ earlier = <<>>
    /\ other = OtherOff
    /\ probe = NoProbe

SpecLive == InitLive /\ [][Next]_vars /\ WF_vars(Next)

\* the run is over: it returned, yielded its complete step, or threw
Over == pc \in {"done", "thrown"}

\* C22: a run makes at most max_turns backend calls and then ends, whatever
\* the provider requests; with max_turns = 0 it makes no backend call and
\* returns the caller's messages unchanged.
C22_EndsWithinMaxTurns ==
    /\ [](pc # "idle" => backendCalls <= max_turns)
    /\ []((pc # "idle" /\ max_turns = 0) =>
            /\ backendCalls = 0
            /\ currentMessages = messages
            /\ pc # "thrown"
            /\ \A i \in DOMAIN steps : steps[i].type = "complete")
    /\ (pc # "idle") ~> Over
    /\ []((pc = "thrown" /\ NoFailure) => InputAbort)

\* a run that the turn limit ended: every one of its max_turns backend calls
\* ended in a hand-off
C22_Witness ==
    /\ pc = "done" /\ max_turns >= 2
    /\ backendCalls = max_turns
    /\ NumberOf("handoff") = max_turns

\* a run with max_turns = 0 has returned
C22_WitnessZero ==
    pc = "done" /\ max_turns = 0 /\ messages # <<>>

-----------------------------------------------------------------------------
(* C23 *)

\* the step dispatches a batch of tool calls (a tool-execution round)
ToolRound == Len(dispatches') = Len(dispatches) + 1

\* the turn counter counts the tool rounds: a step within a run increments it
\* by one if it dispatches a batch and leaves it alone otherwise
CountsRounds ==
    pc # "idle" =>
        /\ ToolRound => turns' = turns + 1
        /\ ~ToolRound => turns' = turns

\* C23: in both variants the turn counter is incremented exactly once per
\* tool-execution round and by nothing else, so it equals the number of
\* batches dispatched.
C23_TurnsCountToolRounds ==
    /\ [][CountsRounds]_vars
    /\ [](pc # "idle" => turns = Len(dispatches))

\* what holds: the batched variant counts the tool rounds, the streaming
\* variant counts the backend calls
C23_WhatTurnsCount ==
    /\ [][~stream' => CountsRounds]_vars
    /\ []((pc # "idle" /\ ~stream) => turns = Len(dispatches))
    /\ []((pc \notin {"idle", "s_open"} /\ stream) => turns = backendCalls)

\* a streaming run has returned after a backend call that requested no tool
\* call, with the counter at one
C23_PlainCallCounted ==
    /\ pc = "done" /\ stream
    /\ dispatches = <<>> /\ backendCalls = 1 /\ turns = 1

-----------------------------------------------------------------------------
(* C24 *)

\* a call of the batch returned a re-target
ProducedRetarget(d) == \E k \in DOMAIN d.invoked : d.invoked[k].agent # Null

\* the backend calls that follow the first one each follow a batch that
\* produced a re-target: every batch but the last one did, and there is at
\* most one backend call more than batches
BackendCallsFollowRetargets ==
    /\ \A i \in DOMAIN dispatches :
          i < Len(dispatches) => ProducedRetarget(dispatches[i])
    /\ backendCalls <= Len(dispatches) + 1
    /\ (dispatches # <<>> /\ ~ProducedRetarget(dispatches[Len(dispatches)])) =>
          /\ backendCalls = Len(dispatches)
          /\ pc \in (IF stream THEN {"s_yield", "done"} ELSE {"done"})

\* once a batch without re-target has been dispatched no backend call follows
NoCallAfterPlainBatch ==
    (dispatches # <<>> /\ ~ProducedRetarget(dispatches[Len(dispatches)])) =>
        /\ backendCalls' = backendCalls
        /\ dispatches' = dispatches
        /\ pc' \in {"s_yield", "done"}

\* C24: after a batch has been dispatched the loop makes another backend
\* call only if the batch produced a re-target; after a batch without
\* re-target the run ends at once, without a further backend call, in both
\* variants.
C24_ContinueOnlyOnRetarget ==
    /\ [](pc # "idle" => BackendCallsFollowRetargets)
    /\ [][NoCallAfterPlainBatch]_vars

\* both cases have happened in one run: a second backend call after a batch
\* with a re-target, and the end of the run after a batch without one
C24_Witness ==
    /\ pc = "done" /\ stream
    /\ backendCalls = 2 /\ Len(dispatches) = 2
    /\ ProducedRetarget(dispatches[1])
    /\ ~ProducedRetarget(dispatches[2])

\* the same for the batched variant
C24_WitnessBatched ==
    /\ pc = "done" /\ ~stream /\ turns < max_turns
    /\ backendCalls = 1 /\ Len(dispatches) = 1
    /\ ~ProducedRetarget(dispatches[1])

-----------------------------------------------------------------------------
(* C25 *)

\* the step records a handoff trace event
HandoffRecorded == NumberOf("handoff")' = NumberOf("handoff") + 1

\* the handoff trace event a step records names the executor that was active
\* before the step as `from` and the one active after it as `to`
HandoffEventNamesSwap ==
    HandoffRecorded =>
        LET e == events'[Len(events')]
        IN  /\ e.type = "handoff"
            /\ e.data.from = currentAgent
            /\ e.data.to = currentAgent'

\* in the streaming variant the step also yields a handoff step that names
\* the same two executors
HandoffStepNamesSwap ==
    (HandoffRecorded /\ stream) =>
        LET st == steps'[Len(steps')]
        IN  /\ Len(steps') = Len(steps) + 1
            /\ st.type = "handoff"
            /\ st.from = currentAgent
            /\ st.to = currentAgent'

\* the rounds of the run that produced a re-target
RetargetRounds == { i \in DOMAIN dispatches : ProducedRetarget(dispatches[i]) }

\* C25: every hand-off is logged with the executor active immediately
\* before the swap as `from` and the newly active executor as `to`, in the
\* handoff trace event and in the handoff step of the streaming variant,
\* for the first and for every later hand-off; a run records one handoff
\* trace event per round that produced a re-target.
C25_HandoffLogged ==
    /\ [][HandoffEventNamesSwap]_vars
    /\ [][HandoffStepNamesSwap]_vars
    /\ [](Returned => NumberOf("handoff") = Cardinality(RetargetRounds))

\* what holds: the trace events name the swap, there is one per round with a
\* re-target, and the handoff steps name the new executor as `to` and the
\* executor the run was started with as `from`
C25_HandoffAsLogged ==
    /\ [][HandoffEventNamesSwap]_vars
    /\ [](Returned => NumberOf("handoff") = Cardinality(RetargetRounds))
    /\ [][(HandoffRecorded /\ stream) =>
              /\ steps'[Len(steps')].type = "handoff"
              /\ steps'[Len(steps')].from = agent
              /\ steps'[Len(steps')].to = currentAgent']_vars

\* a streaming run has yielded the step of its second hand-off, from B to A
C25_SecondHandoff ==
    /\ stream /\ NumberOf("handoff") = 2
    /\ agent = "A" /\ currentAgent = "A"
    /\ steps[Len(steps)].type = "handoff"
    /\ steps[Len(steps)].from = "A"

-----------------------------------------------------------------------------
(* C26 *)

\* the fragments the provider has streamed, in arrival order
Fragments == [k \in DOMAIN probe.chunks |-> probe.chunks[k].tool_calls[1]]

\* the fragments announced for index i
AnnouncedFor(i) == { k \in DOMAIN Fragments : Fragments[k].index = i }

\* largest announced index plus one
SlotCount ==
    IF Fragments = <<>> THEN 0
    ELSE 1 + CHOOSE m \in { Fragments[k].index : k \in DOMAIN Fragments } :
                 \A k \in DOMAIN Fragments : Fragments[k].index <= m

RECURSIVE ArgumentsFrom(_, _)
\* the argument pieces announced for index i from fragment k on, in arrival
\* order
ArgumentsFrom(k, i) ==
    IF k > Len(Fragments) THEN ""
    ELSE (IF Fragments[k].index = i /\ Truthy(Fragments[k].arguments)
          THEN Fragments[k].arguments ELSE "")
         \o ArgumentsFrom(k + 1, i)

\* the last value announced for `field` of index i ("" when none was)
LastAnnounced(i, field) ==
    LET ks == { k \in AnnouncedFor(i) : Truthy(Fragments[k][field]) }
    IN  IF ks = {} THEN ""
        ELSE Fragments[CHOOSE k \in ks : \A k2 \in ks : k2 <= k][field]

\* the slots the claim describes
ExpectedSlots ==
    [n \in 1..SlotCount |->
        ToolCall(LastAnnounced(n - 1, "id"), LastAnnounced(n - 1, "type"),
                 LastAnnounced(n - 1, "name"), ArgumentsFrom(1, n - 1))]

\* C26: when the provider has closed the stream, there is one slot per index
\* up to the largest announced one, each slot holds the argument pieces
\* announced for its index concatenated in arrival order and the id, type
\* and name last announced for its index, and these slots are the tool calls
\* of the assistant message pushed to the history.
C26_SlotsPerIndex ==
    (probe.pc = "stream" /\ pc = "s_validate") =>
        /\ collected.tool_calls = ExpectedSlots
        /\ currentMessages[Len(currentMessages)].role = "assistant"
        /\ currentMessages[Len(currentMessages)].tool_calls = ExpectedSlots

\* a closed stream whose fragments for the slots 0 and 2 interleaved: the
\* arguments of slot 0 arrived in two pieces around a piece for slot 2
C26_Witness ==
    /\ probe.pc = "stream" /\ pc = "s_validate"
    /\ Len(Fragments) = 3
    /\ Fragments[1].index = 0 /\ Fragments[2].index = 2 /\ Fragments[3].index = 0
    /\ Fragments[1].arguments = "{" /\ Fragments[2].arguments = "{"
    /\ Fragments[3].arguments = "}"
    /\ Len(collected.tool_calls) = 3
    /\ collected.tool_calls[1].arguments = "{}"
    /\ collected.tool_calls[3].arguments = "{"

-----------------------------------------------------------------------------
(* C27 *)

\* the calls of batch d whose callable returned a bare Agent
BareRetargets(d) == { k \in DOMAIN d.invoked : d.invoked[k].outcome = "Agent" }

\* what the k-th invocation of batch d, which returned a bare Agent, did to
\* the result of the batch: compared with the batch without that call it
\* adds no message and leaves the context delta as it is, and it sets the
\* re-target unless a later call of the batch re-targets
BareRetargetEffect(d, k) ==
    LET inv == d.invoked[k]
        functions == Functions(d.agent)
        with == handleToolCalls(d.toolCalls, functions, inv.contextVariables)
        without == handleToolCalls(SelectSeq(d.toolCalls, LAMBDA c : c.id # inv.id),
                                   functions, inv.contextVariables)
    IN  /\ with.messages = without.messages
        /\ with.context_variables = without.context_variables
        /\ \A i \in DOMAIN with.messages : with.messages[i].tool_call_id # inv.id
        /\ (\A k2 \in DOMAIN d.invoked : k2 > k => d.invoked[k2].agent = Null)
              => with.agent = inv.agent

\* C27: a callable that returns a bare Agent re-targets the run to that
\* agent, no tool-role message answers its call, and it contributes no
\* context delta: the context variables after a round that consists of that
\* call are those the batch was dispatched with.
C27_BareExecutor ==
    \A i \in DOMAIN dispatches :
        \A k \in BareRetargets(dispatches[i]) :
            /\ BareRetargetEffect(dispatches[i], k)
            /\ ToolMessagesFor(dispatches[i].invoked[k].id) = {}
            /\ (Merged(dispatches[i]) /\ Len(dispatches[i].toolCalls) = 1) =>
                  /\ currentAgent = dispatches[i].invoked[k].agent
                  /\ currentContextVars = dispatches[i].invoked[k].contextVariables
                  /\ currentMessages[Len(currentMessages)].role = "assistant"

\* a run that B's callable toC, which returns the agent C itself, handed to
\* C, with the context variables set before still in place
C27_Witness ==
    /\ Returned /\ currentAgent = "C"
    /\ \E i \in DOMAIN dispatches : BareRetargets(dispatches[i]) # {}
    /\ "flag" \in DOMAIN currentContextVars
    /\ NumberOf("handoff") = 2

-----------------------------------------------------------------------------
(* C28 *)

\* the context variables of the run so far: the caller's, overlaid with the
\* deltas of all invocations in order
ContextSoFar == Overlay(context_variables, Invocations)

\* the tool-role messages the dispatched batches produced
ProducedToolMessages ==
    UNION { LET produced == handleToolCalls(dispatches[i].toolCalls,
                                Functions(dispatches[i].agent),
                                IF dispatches[i].invoked = <<>> THEN EmptyMap
                                ELSE dispatches[i].invoked[1].contextVariables).messages
            IN  { produced[j] : j \in DOMAIN produced }
            : i \in DOMAIN dispatches }

\* the request of a backend call: the system message of the executor of the
\* last re-target over the context so far, then the whole history, which
\* holds the caller's messages, every earlier answer of the provider and
\* every tool message produced so far; the schemas are that executor's
RequestOfActiveExecutor ==
    BackendCall =>
        /\ request'.messages[1].role = "system"
        /\ request'.messages[1].content = getInstructions(LastRetarget, ContextSoFar)
        /\ Tail(request'.messages) = currentMessages
        /\ request'.tools = getFunctionSchemas(LastRetarget)
        /\ IsPrefix(messages, Tail(request'.messages))
        /\ Count(request'.messages, LAMBDA m : m.role = "assistant") = backendCalls
        /\ \A m \in ProducedToolMessages :
              \E i \in DOMAIN request'.messages : request'.messages[i] = m

\* C28: every backend request is the system message rendered by the active
\* executor from the current context variables, all merged deltas included,
\* followed by the entire history; after a hand-off it holds the messages
\* produced under the previous executors and has the new executor's
\* instructions and schemas.
C28_RequestOfActiveExecutor == [][RequestOfActiveExecutor]_vars

\* the second request of a run started with A: made by B after the hand-off,
\* with the delta of the first round in its instructions, B's schemas, and
\* the assistant and tool messages of that round in its history
C28_Witness ==
    /\ pc \in {"model", "s_open"} /\ agent = "A" /\ currentAgent = "B"
    /\ backendCalls = 2
    /\ context_variables = EmptyMap
    /\ request.messages[1].content = "You are B. flag=true"
    /\ request.messages[3].role = "assistant"
    /\ request.messages[Len(request.messages)].role = "tool"
    /\ request.tools = getFunctionSchemas("B")

-----------------------------------------------------------------------------
(* C29 *)

\* the keys whose entry of the context variables differs after the step
ChangedKeys ==
    { k \in DOMAIN currentContextVars' :
         k \notin DOMAIN currentContextVars
            \/ currentContextVars'[k] # currentContextVars[k] }

\* the keys the calls of the last dispatched batch supplied in their deltas
SuppliedKeys(ds) ==
    IF ds = <<>> THEN {}
    ELSE UNION { DOMAIN ds[Len(ds)].invoked[j].delta : j \in DOMAIN ds[Len(ds)].invoked }

\* a step of a run keeps every key of the context variables, and changes the
\* entry of a key only if a call of the batch of this round supplied it
MergeIsAdditive ==
    pc # "idle" =>
        /\ DOMAIN currentContextVars \subseteq DOMAIN currentContextVars'
        /\ ChangedKeys \subseteq SuppliedKeys(dispatches')
        /\ ChangedKeys # {} => Len(dispatches') = turns'

\* C29: the context variables merge additively: no step of the loop removes
\* a key, the keys of the caller's context are always among the keys of the
\* context variables, and a key's value changes only when a tool call of the
\* current round supplies that key in its delta.
C29_ContextMergesAdditively ==
    /\ [][MergeIsAdditive]_vars
    /\ [](pc # "idle" => DOMAIN context_variables \subseteq DOMAIN currentContextVars)

\* a returned run whose caller passed a = 0: the hand-off round added flag
\* and left a as it was
C29_Witness ==
    /\ Returned /\ context_variables = [a |-> "0"]
    /\ currentContextVars = [a |-> "0", flag |-> "true"]
    /\ NumberOf("handoff") = 1

\* a returned run whose caller passed a = 0 and in which a call set a to 1
C29_WitnessOverwrite ==
    /\ Returned /\ context_variables = [a |-> "0"]
    /\ currentContextVars["a"] = "1"

-----------------------------------------------------------------------------
(* C30 *)

\* the position in the history of the assistant message of round i (the
\* i-th assistant message), or one past the end of the history
AssistantAt(i) ==
    LET at == { p \in DOMAIN currentMessages : currentMessages[p].role = "assistant" }
        upTo(p) == Cardinality({ q \in at : q <= p })
    IN  IF \E p \in at : upTo(p) = i
        THEN CHOOSE p \in at : upTo(p) = i
        ELSE Len(currentMessages) + 1

\* the messages of the history between the assistant message of round i and
\* the next assistant message
RoundMessages(i) ==
    SubSeq(currentMessages, AssistantAt(i) + 1, AssistantAt(i + 1) - 1)

\* the calls of batch d that message m may answer: it carries their id and
\* their name
CallsAnswered(d, m) ==
    { c \in DOMAIN d.toolCalls :
         d.toolCalls[c].id = m.tool_call_id /\ d.toolCalls[c].name = m.name }

\* round i in the history: the assistant message that requested batch d, then
\* tool-role messages only, each of one call of d, in the order of the calls
RoundInHistory(i, d) ==
    LET p == AssistantAt(i)
        round == RoundMessages(i)
        call(j) == CHOOSE c \in CallsAnswered(d, round[j]) : TRUE
    IN  /\ p \in DOMAIN currentMessages
        /\ currentMessages[p].tool_calls = d.toolCalls
        /\ \A j \in DOMAIN round :
              /\ round[j].role = "tool"
              /\ Cardinality(CallsAnswered(d, round[j])) = 1
        /\ \A j, k \in DOMAIN round : j < k => call(j) < call(k)
        /\ \A t \in DOMAIN currentMessages :
              (currentMessages[t].role = "tool"
                 /\ \E c \in DOMAIN d.toolCalls :
                        d.toolCalls[c].id = currentMessages[t].tool_call_id)
                => t > p /\ t < AssistantAt(i + 1)

\* the tool-role messages of round i are those the dispatch of d returned
RoundHoldsBatch(i, d) ==
    LET response == handleToolCalls(d.toolCalls, Functions(d.agent),
                                    IF d.invoked = <<>> THEN EmptyMap
                                    ELSE d.invoked[1].contextVariables)
    IN  response.escaped = Null => RoundMessages(i) = response.messages

\* C30: in each tool round the history grows by the assistant message that
\* requested the calls, followed by the tool-role messages of that batch in
\* the input order of the calls, each with the tool-call id and the action
\* name of its call; no tool message of a round stands before the assistant
\* message of that round.
C30_RoundsInHistory ==
    /\ \A i \in DOMAIN dispatches :
          RoundInHistory(i, dispatches[i]) /\ RoundHoldsBatch(i, dispatches[i])
    /\ \A t \in DOMAIN currentMessages :
          currentMessages[t].role = "tool" =>
              \E i \in DOMAIN dispatches : t > AssistantAt(i) /\ t < AssistantAt(i + 1)

\* a returned run with two rounds, the first of them a hand-off: the history
\* is user, assistant, tool, assistant, tool
C30_Witness ==
    /\ Returned /\ Len(dispatches) = 2
    /\ Roles(currentMessages) = << "user", "assistant", "tool", "assistant", "tool" >>

\* a returned run with one round of two calls, answered in their order
C30_WitnessBatch ==
    /\ Returned /\ Len(dispatches) = 1
    /\ Len(dispatches[1].toolCalls) = 2
    /\ Len(RoundMessages(1)) = 2
    /\ RoundMessages(1)[1].tool_call_id = dispatches[1].toolCalls[1].id
    /\ RoundMessages(1)[2].tool_call_id = dispatches[1].toolCalls[2].id
    /\ RoundMessages(1)[1].name # RoundMessages(1)[2].name

-----------------------------------------------------------------------------
(* C31 *)

\* a step of a run leaves the caller's array and the caller's object as they
\* are
InputsKept ==
    pc # "idle" => messages' = messages /\ context_variables' = context_variables

\* C31: a run does not change its inputs: at every step of the run, up to the
\* return, the abort or the point where a streaming run is abandoned, the
\* caller's messages and the caller's context variables are as they were
\* passed.
C31_InputsNotMutated == [][InputsKept]_vars

\* a returned run that appended to its history and merged a delta, with the
\* caller's array and object still as passed
C31_Witness ==
    /\ Returned
    /\ messages = << UserMessage("hello") >> /\ context_variables = [a |-> "0"]
    /\ Len(currentMessages) > 2
    /\ currentContextVars # context_variables

\* a streaming run abandoned between two tool_response steps
C31_WitnessAbandoned ==
    /\ pc = "s_yield" /\ yieldIndex < Len(toolCallResult.messages)
    /\ messages # currentMessages

\* a run aborted by the input rules after a hand-off
C31_WitnessAbort ==
    /\ InputAbort /\ Len(currentMessages) > Len(messages)

-----------------------------------------------------------------------------
(* C32 *)

\* the context variables as they stood before batch i was dispatched: the
\* caller's, overlaid with the deltas of the calls of the earlier batches
ContextBefore(i) ==
    Overlay(context_variables, AllInvoked(SubSeq(dispatches, 1, i - 1)))

\* C32: every callable of a batch is invoked with the context variables as
\* they stood before the batch; the delta of an earlier call of the same
\* batch is not in them, the deltas of the earlier rounds are.
C32_BatchSeesContextBefore ==
    \A i \in DOMAIN dispatches :
        \A k \in DOMAIN dispatches[i].invoked :
            dispatches[i].invoked[k].contextVariables = ContextBefore(i)

\* a batch of H started with a = 0: its first call set a to 1, and its second
\* call, the hand-off function, was called with a = 0 and returned a = 0
C32_Witness ==
    /\ dispatches # <<>> /\ Len(dispatches[1].invoked) = 2
    /\ dispatches[1].invoked[1].delta = [a |-> "1"]
    /\ dispatches[1].invoked[2].impl = "H.handoff"
    /\ dispatches[1].invoked[2].contextVariables = [a |-> "0"]
    /\ dispatches[1].invoked[2].delta = [a |-> "0", flag |-> "true"]

\* a call of the second round that was called with the delta of the first
C32_WitnessNextRound ==
    /\ Len(dispatches) = 2 /\ dispatches[2].invoked # <<>>
    /\ context_variables = EmptyMap
    /\ dispatches[2].invoked[1].contextVariables = [flag |-> "true"]

-----------------------------------------------------------------------------
(* C33 *)

\* the calls of batch d that proposed a re-target
Proposers(d) == { k \in DOMAIN d.invoked : d.invoked[k].agent # Null }

\* the re-target the last proposer of batch d proposed
LastProposed(d) ==
    d.invoked[CHOOSE k \in Proposers(d) : \A k2 \in Proposers(d) : k2 <= k].agent

\* C33: after a batch in which calls proposed re-targets the active executor
\* is the one the last of them in input order proposed, whatever the calls
\* after it did, and the trace holds one handoff event per such batch.
C33_LastRetargetWins ==
    /\ \A i \in DOMAIN dispatches :
          (Merged(dispatches[i]) /\ Proposers(dispatches[i]) # {}) =>
              currentAgent = LastProposed(dispatches[i])
    /\ pc \in {"loop", "s_loop", "done"} =>
          NumberOf("handoff")
              = Cardinality({ i \in DOMAIN dispatches : Proposers(dispatches[i]) # {} })

\* a batch of H started with a = 0, merged: the hand-off function proposed B,
\* the conditional hand-off after it proposed C, C is active and one handoff
\* event was recorded
C33_Witness ==
    /\ Len(dispatches) = 1 /\ Merged(dispatches[1])
    /\ Len(dispatches[1].invoked) = 2
    /\ dispatches[1].invoked[1].agent = "B"
    /\ dispatches[1].invoked[2].agent = "C"
    /\ currentAgent = "C"
    /\ NumberOf("handoff") = 1

\* a batch whose first call proposed B and whose second call failed on its
\* arguments: B is active
C33_WitnessFailure ==
    /\ Len(dispatches) = 1 /\ Merged(dispatches[1])
    /\ Len(dispatches[1].toolCalls) = 2
    /\ dispatches[1].toolCalls[1].name = "handoff"
    /\ dispatches[1].toolCalls[2].arguments = "{"
    /\ currentAgent = "B"
    /\ NumberOf("handoff") = 1

-----------------------------------------------------------------------------
(* C34 *)

\* the executor that made the backend call whose answer requested batch i:
\* the re-target of the last proposer of the earlier batches, or the initial
\* executor
ActiveAt(i) ==
    LET before == AllInvoked(SubSeq(dispatches, 1, i - 1))
        proposers == { k \in DOMAIN before : before[k].agent # Null }
    IN  IF proposers = {} THEN agent
        ELSE before[CHOOSE k \in proposers : \A k2 \in proposers : k2 <= k].agent

\* C34: every call of a batch is resolved against the callables of the
\* executor that was active when the backend call was made, also after a
\* call of the batch proposed a re-target; a name that is none of its
\* callables invokes nothing; the callables of the re-target are resolved
\* from the next backend call on.
C34_ResolvedAgainstActiveExecutor ==
    \A i \in DOMAIN dispatches :
        /\ dispatches[i].agent = ActiveAt(i)
        /\ \A k \in DOMAIN dispatches[i].invoked :
              dispatches[i].invoked[k].impl
                 = FunctionMap(Functions(ActiveAt(i)), dispatches[i].invoked[k].name)
        /\ \A c \in DOMAIN dispatches[i].toolCalls :
              FunctionMap(Functions(ActiveAt(i)), dispatches[i].toolCalls[c].name) = Undefined
                 => NotInvoked(dispatches[i], dispatches[i].toolCalls[c].id)

\* a batch of A: toB proposed B, and the call of setA1 after it ran A's setA1
C34_Witness ==
    /\ dispatches # <<>> /\ Len(dispatches[1].invoked) = 2
    /\ dispatches[1].invoked[1].impl = "A.toB"
    /\ dispatches[1].invoked[2].name = "setA1"
    /\ dispatches[1].invoked[2].impl = "A.setA1"

\* the round after the hand-off: setA1 ran B's setA1
C34_WitnessNextRound ==
    /\ Len(dispatches) = 2
    /\ dispatches[1].invoked[1].impl = "A.toB"
    /\ dispatches[2].invoked # <<>>
    /\ dispatches[2].invoked[1].impl = "B.setA1"

-----------------------------------------------------------------------------
(* C35 *)

\* C35: with tracing enabled, the trace of a run that returned (batched) or
\* yielded its complete step (streaming) starts with the only agent_start
\* event, which names the initial executor, and ends with the only agent_end
\* event, which names the final executor; a run aborted by the input rules
\* has recorded its agent_start event and no agent_end event.
C35_TraceBracketed ==
    /\ (Returned /\ enabled) =>
          /\ Len(events) >= 2
          /\ events[1].type = "agent_start" /\ events[1].data.agent = agent
          /\ NumberOf("agent_start") = 1
          /\ events[Len(events)].type = "agent_end"
          /\ events[Len(events)].data.agent = currentAgent
          /\ NumberOf("agent_end") = 1
          /\ stream => /\ steps[Len(steps)].type = "complete"
                        /\ steps[Len(steps)].trace = events
    /\ (InputAbort /\ enabled) =>
          /\ NumberOf("agent_end") = 0
          /\ events[1].type = "agent_start" /\ NumberOf("agent_start") = 1

\* a run that returned under another executor than it was started with
C35_Witness ==
    /\ Returned /\ enabled /\ agent = "A" /\ currentAgent = "B"
    /\ events[1].data.agent = "A"
    /\ events[Len(events)].data.agent = "B"
    /\ Len(events) > 4

\* a streaming run that yielded an error step before its complete step
C35_WitnessAfterError ==
    /\ Returned /\ stream /\ ErrorSteps # {}
    /\ events[Len(events)].type = "agent_end"

\* a run aborted by the input rules of the executor it was handed to
C35_WitnessAbort ==
    /\ InputAbort /\ currentAgent = "B" /\ NumberOf("agent_end") = 0

-----------------------------------------------------------------------------
(* C36 *)

\* what the run returned: the result of the batched run, or the complete step
FinalResult ==
    IF stream
    THEN [messages |-> steps[Len(steps)].messages, agent |-> steps[Len(steps)].agent,
          context_variables |-> steps[Len(steps)].context_variables,
          trace |-> steps[Len(steps)].trace]
    ELSE [messages |-> currentMessages, agent |-> currentAgent,
          context_variables |-> currentContextVars, trace |-> events]

\* C36: the messages, the executor and the context variables a run returns
\* are a function of its inputs and of the provider's answers, the same with
\* tracing enabled and disabled (the batched result is what RunBatched gives,
\* the streaming completion has its executor, context variables, roles and
\* tool messages), and the trace returned with tracing disabled is empty.
C36_TracingObservesOnly ==
    /\ (Returned /\ ~stream) =>
          /\ Batched.status = "returned"
          /\ FinalResult.messages = Batched.messages
          /\ FinalResult.agent = Batched.agent
          /\ FinalResult.context_variables = Batched.context_variables
    /\ (Returned /\ stream /\ NoFailure) =>
          /\ Batched.status = "returned"
          /\ FinalResult.agent = Batched.agent
          /\ FinalResult.context_variables = Batched.context_variables
          /\ Roles(FinalResult.messages) = Roles(Batched.messages)
          /\ ToolMessages(FinalResult.messages) = ToolMessages(Batched.messages)
    /\ (Returned /\ ~enabled) => FinalResult.trace = <<>>
    /\ (Returned /\ enabled) => FinalResult.trace # <<>>
    /\ ~enabled => events = <<>>

\* a run without tracing that returned after a hand-off with a context update
C36_Witness ==
    /\ Returned /\ ~enabled /\ ~stream
    /\ agent = "A" /\ currentAgent = "B"
    /\ currentContextVars = [flag |-> "true"]
    /\ Len(currentMessages) = 5
    /\ events = <<>>

\* the same run with tracing
C36_WitnessTraced ==
    /\ Returned /\ enabled /\ ~stream
    /\ agent = "A" /\ currentAgent = "B"
    /\ currentContextVars = [flag |-> "true"]
    /\ Len(currentMessages) = 5
    /\ events # <<>>

-----------------------------------------------------------------------------
(* C37 *)

\* the complete steps the generator has yielded
CompleteSteps == { i \in DOMAIN steps : steps[i].type = "complete" }

\* the complete step, when there is one, is the only one and the last step,
\* it is there exactly when the generator is done, and it carries the
\* history, the executor and the context variables of the run
CompleteStepIsLast ==
    stream =>
        /\ Cardinality(CompleteSteps) <= 1
        /\ CompleteSteps # {} <=> pc = "done"
        /\ pc = "done" =>
              /\ CompleteSteps = { Len(steps) }
              /\ steps[Len(steps)].messages = currentMessages
              /\ steps[Len(steps)].agent = currentAgent
              /\ steps[Len(steps)].context_variables = currentContextVars
              /\ Count(currentMessages, LAMBDA m : m.role = "assistant")
                    = Count(responses, LAMBDA r : ~r.failed)
        /\ pc = "thrown" => InputAbort

\* the step that yields the complete step leaves the history and the
\* executor as the loop left them
CompleteStepKeepsState ==
    (stream /\ pc # "idle" /\ pc' = "done") =>
        /\ currentMessages' = currentMessages
        /\ currentAgent' = currentAgent

\* C37: a streaming run that is drained ends: it is aborted by the input
\* rules or it yields a complete step, exactly one, as its last step, also
\* after an error step; the complete step carries the history, the executor
\* and the context variables as the loop left them, after a failed backend
\* call without an assistant message for that call.
C37_CompletionStep ==
    /\ [](CompleteStepIsLast)
    /\ [][CompleteStepKeepsState]_vars
    /\ (stream /\ pc # "idle") ~> (pc = "done" \/ InputAbort)

\* a streaming run whose second backend call failed: error step, then the
\* complete step, with the one assistant message of the first call
C37_Witness ==
    /\ stream /\ pc = "done"
    /\ Len(responses) = 2 /\ responses[2].failed
    /\ ErrorSteps = { Len(steps) - 1 }
    /\ Count(steps[Len(steps)].messages, LAMBDA m : m.role = "assistant") = 1

-----------------------------------------------------------------------------
(* C38 *)

\* the context variables in effect when the first k calls of batch i have
\* been merged: those before the batch, overlaid with the deltas of the calls
MergedUpTo(i, k) ==
    Overlay(ContextBefore(i), SubSeq(dispatches[i].invoked, 1, k))

\* the calls of batch i made to the function createHandoffFunction built
HandoffCalls(i) ==
    { k \in DOMAIN dispatches[i].invoked : dispatches[i].invoked[k].impl = "H.handoff" }

\* C38 as stated: merging a call of a function built by createHandoffFunction
\* with the update `update` changes only the keys of `update`: every other
\* context variable keeps the value it has when the call is merged, also a
\* value set by an earlier call of the same batch.
C38_HandoffChangesOnlyUpdate ==
    \A i \in DOMAIN dispatches :
        \A k \in HandoffCalls(i) :
            \A key \in DOMAIN MergedUpTo(i, k - 1) \ DOMAIN HandoffUpdate :
                MergedUpTo(i, k)[key] = MergedUpTo(i, k - 1)[key]

\* what the code does: the delta of the hand-off call is the whole context as
\* it stood before the batch, overlaid with the update, and after the batch it
\* has replaced what the earlier calls of the batch set
C38_HandoffRestoresBatchStart ==
    \A i \in DOMAIN dispatches :
        \A k \in HandoffCalls(i) :
            /\ dispatches[i].invoked[k].delta = Spread(ContextBefore(i), HandoffUpdate)
            /\ \A key \in DOMAIN ContextBefore(i) \ DOMAIN HandoffUpdate :
                  MergedUpTo(i, k)[key] = ContextBefore(i)[key]

\* a returned run started with a = 0 whose batch set a to 1 and then handed
\* off: a is 0 again
C38_SetThenHandoff ==
    /\ pc \in {"loop", "s_loop", "done"} /\ Len(dispatches) = 1
    /\ context_variables = [a |-> "0"]
    /\ Len(dispatches[1].invoked) = 2
    /\ dispatches[1].invoked[1].delta = [a |-> "1"]
    /\ dispatches[1].invoked[2].impl = "H.handoff"
    /\ currentContextVars = [a |-> "0", flag |-> "true"]

-----------------------------------------------------------------------------
(* C39 *)

\* the conditions of H's conditional hand-off that hold for context ctx
Holding(ctx) ==
    { j \in DOMAIN HandoffConditions : Holds(HandoffConditions[j].condition, ctx) }

\* the calls of batch i made to the function createConditionalHandoff built
ConditionalCalls(i) ==
    { k \in DOMAIN dispatches[i].invoked :
         dispatches[i].invoked[k].impl = "H.conditionalHandoff" }

\* the k-th call of batch i, a call of the conditional hand-off: it proposed
\* the target of the first condition that held for the context it was called
\* with, or, none holding, returned without re-target and delta
ConditionalOutcome(i, k) ==
    LET d == dispatches[i]
        inv == d.invoked[k]
        holding == Holding(inv.contextVariables)
        first == CHOOSE j \in holding : \A j2 \in holding : j <= j2
    IN  /\ inv.outcome # "throw"
        /\ holding # {} =>
              /\ inv.agent = HandoffConditions[first].targetAgent
              /\ (Merged(d) /\ Len(d.toolCalls) = 1) => currentAgent = inv.agent
        /\ holding = {} =>
              /\ inv.agent = Null
              /\ inv.delta = EmptyMap
              /\ MergedUpTo(i, k) = MergedUpTo(i, k - 1)
              /\ (Merged(d) /\ Len(d.toolCalls) = 1) =>
                    /\ currentAgent = d.agent
                    /\ currentContextVars = ContextBefore(i)

\* C39: a conditional hand-off re-targets to the target of the first
\* condition, in list order, that holds for the context variables; when none
\* holds it gives no re-target and no context delta, executor and context
\* variables are as before the call, and the run does not throw.
C39_ConditionalHandoff ==
    /\ \A i \in DOMAIN dispatches :
          \A k \in ConditionalCalls(i) : ConditionalOutcome(i, k)
    /\ NoActionErrorEscaped

\* a = 1 makes both conditions hold: the run went to B, the target of the
\* first, with its update
C39_Witness ==
    /\ pc \in {"loop", "s_loop", "done"} /\ Len(dispatches) = 1
    /\ context_variables = [a |-> "1"]
    /\ Len(dispatches[1].toolCalls) = 1
    /\ ConditionalCalls(1) = {1}
    /\ Holding(context_variables) = {1, 2}
    /\ currentAgent = "B"
    /\ currentContextVars = [a |-> "1", via |-> "one"]

\* no condition holds: the run returned under H with the context as passed
C39_WitnessNoMatch ==
    /\ Returned /\ Len(dispatches) = 1
    /\ context_variables = EmptyMap
    /\ Len(dispatches[1].toolCalls) = 1
    /\ ConditionalCalls(1) = {1}
    /\ currentAgent = "H" /\ currentContextVars = EmptyMap
    /\ currentMessages[Len(currentMessages)].content = "null"

-----------------------------------------------------------------------------
(* C40 *)

\* the calls of a batch whose type is 'function'
FunctionCalls(toolCalls) == SelectSeq(toolCalls, LAMBDA c : c.type = "function")

\* the batch has a call of another type, and the dispatch of the batch gave
\* what the dispatch of its function calls alone gives: the same invocations,
\* tool messages, trace events, re-target and context delta
OtherTypesSkipped(i) ==
    LET d == dispatches[i]
        all == handleToolCalls(d.toolCalls, Functions(d.agent), ContextBefore(i))
        functionCalls == handleToolCalls(FunctionCalls(d.toolCalls), Functions(d.agent),
                                         ContextBefore(i))
    IN  /\ all = functionCalls
        /\ d.invoked = functionCalls.invoked
        /\ Len(d.invoked) <= Len(FunctionCalls(d.toolCalls))

\* C40: a requested call whose type is not 'function', a streaming slot
\* whose type was never announced or that is mere padding included, is
\* skipped: no callable is invoked, no tool message appended and no
\* function_call or function_return event recorded for it, and the function
\* calls of the batch are processed as without it.
C40_OtherTypesSkipped ==
    /\ \A i \in DOMAIN dispatches : OtherTypesSkipped(i)
    /\ (dispatches # <<>> /\ Merged(dispatches[Len(dispatches)])) =>
          LET calls == FunctionCalls(AllToolCalls(dispatches))
          IN  /\ NumberOf("function_call") = Len(calls)
              /\ NumberOf("function_return") = Len(calls)
              /\ Len(ToolMessages(currentMessages)) = Len(calls)
              /\ \A i \in DOMAIN ToolMessages(currentMessages) :
                    /\ ToolMessages(currentMessages)[i].tool_call_id = calls[i].id
                    /\ ToolMessages(currentMessages)[i].name = calls[i].name

\* a completed run whose stream filled slot 0 with a function call of setA1,
\* left slot 1 as padding and named toB in slot 2 without a type: setA1 ran,
\* one tool message, no hand-off
C40_Witness ==
    /\ Returned /\ Len(dispatches) = 1
    /\ Len(dispatches[1].toolCalls) = 3
    /\ dispatches[1].toolCalls[1].type = "function"
    /\ dispatches[1].toolCalls[2] = ToolCall("", "", "", "")
    /\ dispatches[1].toolCalls[3].name = "toB"
    /\ dispatches[1].toolCalls[3].type = ""
    /\ Len(dispatches[1].invoked) = 1
    /\ dispatches[1].invoked[1].impl = "A.setA1"
    /\ Len(ToolMessages(currentMessages)) = 1
    /\ currentAgent = "A"
    /\ NumberOf("function_call") = 1

====
